---- MODULE Spec2Model ----
(***************************************************************************)
(* Model of the arbitrage bot: the cycle executor                          *)
(* (src/src/arbitrageExecutor.ts) and the route scanner                    *)
(* (src/src/types.ts, class ArbitrageScanner with progress counters).      *)
(*                                                                         *)
(* Texts are sequences of one-character strings.  Amounts are BigNumber    *)
(* values; the quoting collaborator answers with natural numbers.  Time is *)
(* Date.now() in model ticks and is assumed not to run backwards.          *)
(***************************************************************************)
EXTENDS Integers, Sequences, FiniteSets, TLC

(***************************************************************************)
(* Bounds of the model                                                     *)
(***************************************************************************)
\* first value of Date.now() (an epoch time: larger than any configured delay)
ClockStart == 10
\* number of scanOnce calls explored
MaxScans == 1
\* number of clock ticks explored after ClockStart by the executor
Horizon == 4
\* number of clock ticks explored after ClockStart by the scanner
ScanHorizon == 1
\* number of scanOnce calls explored while snapshots are taken
SnapScans == 2
\* number of snapshots that the caller of getProgress holds
MaxSnaps == 2
\* number of iterations of the main loop explored with the scanner it calls
MaxRounds == 2

MaxTime == ClockStart + Horizon

(***************************************************************************)
(* Texts                                                                   *)
(***************************************************************************)
\* the characters of the class [A-Za-z0-9:_-] that occur in the model
WordChars == {"G", "B", "C", "U", "S", "D", "A", "L", "n", "i", "t", "o", "e",
              ":", "_", "-",
              "0", "1", "3", "5"}

RECURSIVE join(_, _)
\* Array.prototype.join over texts
join(ss, sep) ==
  IF ss = <<>> THEN <<>>
  ELSE IF Len(ss) = 1 THEN ss[1]
  ELSE ss[1] \o sep \o join(Tail(ss), sep)

includes(s, ch) == \E k \in 1..Len(s) : s[k] = ch

RECURSIVE trimStart(_)
trimStart(s) == IF s # <<>> /\ Head(s) = " " THEN trimStart(Tail(s)) ELSE s

RECURSIVE trimEnd(_)
trimEnd(s) ==
  IF s # <<>> /\ s[Len(s)] = " " THEN trimEnd(SubSeq(s, 1, Len(s) - 1)) ELSE s

\* String.prototype.trim
trim(s) == trimEnd(trimStart(s))

RECURSIVE split(_, _)
\* String.prototype.split on a one-character separator
split(s, ch) ==
  IF ~includes(s, ch) THEN <<s>>
  ELSE LET k == CHOOSE j \in 1..Len(s) :
                   s[j] = ch /\ \A h \in 1..(j - 1) : s[h] # ch
       IN  <<SubSeq(s, 1, k - 1)>> \o split(SubSeq(s, k + 1, Len(s)), ch)

RECURSIVE digits(_)
\* decimal text of a natural number (Number.prototype.toString)
digits(n) ==
  LET d == <<"0", "1", "2", "3", "4", "5", "6", "7", "8", "9">>
  IN  IF n < 10 THEN <<d[n + 1]>> ELSE digits(n \div 10) \o <<d[(n % 10) + 1]>>

IsWordText(s) == s # <<>> /\ \A k \in 1..Len(s) : s[k] \in WordChars

UnitText == <<"U", "n", "i", "t">>
NoneText == <<"n", "o", "n", "e">>

(***************************************************************************)
(* Token identifier normalizer                                             *)
(***************************************************************************)
\* the inner helper toDollar: both branches after the test append the suffix
toDollar(s) ==
  IF includes(s, "$") THEN s
  ELSE s \o <<"$">> \o UnitText \o <<"$">> \o NoneText \o <<"$">> \o NoneText

\* the groups of the match, given whether the text begins with "$" and the
\* fields f between the other "$" signs, or <<>> when the text does not match
groupsOf(lead, f) ==
  IF /\ Len(f) = 4
     /\ \A k \in 1..4 : IsWordText(f[k])
     /\ f[2] = UnitText
  THEN <<(IF lead THEN <<"$">> ELSE <<>>) \o f[1], f[2], f[3], f[4]>>
  ELSE <<>>

\* the groups of /^(\$?[A-Za-z0-9:_-]+)\$(Unit)\$([A-Za-z0-9:_-]+)\$([A-Za-z0-9:_-]+)$/
\* on text d, or <<>> when the text does not match
dollarMatch(d) ==
  groupsOf(d # <<>> /\ Head(d) = "$",
           split(IF d # <<>> /\ Head(d) = "$" THEN Tail(d) ELSE d, "$"))

\* TRUE when toPipeId(input) throws "Token id invalido"
toPipeIdThrows(input) ==
  ~includes(trim(input), "|") /\ dollarMatch(toDollar(trim(input))) = <<>>

\* variant of joinGroups: the symbol keeps its leading "$"
joinGroupsKeepMarker(m) ==
  m[1] \o <<"|">> \o m[2] \o <<"|">> \o m[3] \o <<"|">> \o m[4]

\* `${symbol}|${m[2]}|${m[3]}|${m[4]}` with symbol = m[1] without a leading "$"
joinGroups(m) ==
  (IF Head(m[1]) = "$" THEN Tail(m[1]) ELSE m[1])
     \o <<"|">> \o m[2] \o <<"|">> \o m[3] \o <<"|">> \o m[4]

\* the value toPipeId(input) returns (meaningful when it does not throw)
toPipeId(input) ==
  IF includes(trim(input), "|") THEN trim(input)
  ELSE joinGroups(dollarMatch(toDollar(trim(input))))

\* pipe identifier of a one-letter symbol, e.g. G|Unit|none|none
PipeOf(sym) ==
  <<sym, "|">> \o UnitText \o <<"|">> \o NoneText \o <<"|">> \o NoneText

\* the longest text made of any characters that is passed to toPipeId
MaxText == 3

\* the characters of those texts
TextChars == {"G", "$", "|", " "}

\* every text of at most MaxText characters
ShortTexts == UNION {[1..n -> TextChars] : n \in 0..MaxText}

\* the symbols, subclasses and networks of the longer texts
Symbols == {<<"G">>, <<"G", "A", "L", "A">>}
Subclasses == {NoneText, <<"B">>}
Networks == {NoneText, <<"C", ":", "1">>}

\* four fields with the separator sep between them
fourPart(sym, cls, sub, net, sep) == join(<<sym, cls, sub, net>>, <<sep>>)

\* longer texts: four fields of class Unit or of another class, separated by
\* "$" or by "|", with or without a leading "$", with or without blanks
\* around; and some with a field missing or a field too many
LongTexts ==
  LET four == {fourPart(sym, cls, sub, net, sep) :
                 sym \in Symbols, cls \in {UnitText, <<"B">>},
                 sub \in Subclasses, net \in Networks, sep \in {"$", "|"}}
      odd  == {join(f, <<sep>>) :
                 f \in {<<<<"G">>, UnitText, NoneText>>,
                        <<<<"G">>, UnitText, NoneText, NoneText, NoneText>>,
                        <<<<"G">>, UnitText, <<>>, NoneText>>},
                 sep \in {"$", "|"}}
      body == four \cup odd \cup Symbols
      lead == body \cup {<<"$">> \o t : t \in body}
  IN  lead \cup {<<" ">> \o t \o <<" ">> : t \in lead}

\* the texts passed to toPipeId
NormInputs == ShortTexts \cup LongTexts

\* the outcome of a call of toPipeId that has not been made
NoOutcome == [throws |-> FALSE, value |-> <<>>]

\* the outcome of toPipeId(input): an exception or a value
outcomeOf(input) ==
  IF toPipeIdThrows(input) THEN [throws |-> TRUE, value |-> <<>>]
  ELSE [throws |-> FALSE, value |-> toPipeId(input)]

\* no caller of toPipeId
NoNorm ==
  [pc |-> "off", input |-> <<>>, first |-> NoOutcome, second |-> NoOutcome]

(***************************************************************************)
(* Cycle executor: configuration and inputs                                *)
(***************************************************************************)
\* delay after each submitted swap, in ticks (env WAIT_AFTER_SEND_MS)
WAIT_AFTER_SEND_MS == 1

\* const order = ['debug','info','warn','error']
order == <<"debug", "info", "warn", "error">>

indexOf(level) == CHOOSE k \in 1..Len(order) : order[k] = level

\* a cooldown that is longer than the time from the epoch to any time that
\* is explored
LongCooldown == 100

\* the configurations of the executor that are explored (type ExecConfig);
\* baseSymbol is never read by the executor
ExecConfigs ==
  [enabled : BOOLEAN, tradeUsd : {100}, maxHopsExec : {2, 3},
   maxSlippageBps : {0, 50, 10000}, cooldownMs : {0, 1, LongCooldown},
   dedupeWindowMs : {0, 2}, logLevel : {"info", "error"}]

\* the outputs the quoting collaborator may answer with
QuoteOuts == {99, 102}

TokG == PipeOf("G")
TokB == PipeOf("B")
TokC == PipeOf("C")
\* a text that toPipeId rejects: "B$C"
TokBad == <<"B", "$", "C">>

\* the opportunities handed to tryExecute (type Opportunity; path, pct and
\* the amounts are only printed)
Opps ==
  { [tokens |-> <<TokG, TokB, TokG>>, fees |-> <<500, 500>>, hops |-> 2],
    [tokens |-> <<TokG, TokB, TokG>>, fees |-> <<500, 3000>>, hops |-> 2],
    [tokens |-> <<TokG, TokB, TokC, TokG>>, fees |-> <<500, 500, 500>>,
     hops |-> 3],
    [tokens |-> <<TokG, TokB, TokBad>>, fees |-> <<500, 500>>, hops |-> 2] }

NoOpp == [tokens |-> <<>>, fees |-> <<>>, hops |-> 0]

\* the concurrent invocations of tryExecute that are tracked
Calls == {1, 2}

\* Date.now()
VARIABLE clock
\* ArbitrageExecutor.cfg
VARIABLE cfg
\* ArbitrageExecutor.lastExecAt
VARIABLE lastExecAt
\* ArbitrageExecutor.recentPaths: pathHash -> timestamp
VARIABLE recentPaths
\* per invocation of tryExecute: its locals, its position in the code, and
\* the lines it logged (logs) and collaborator calls it made (ev)
VARIABLE call
\* ArbitrageScanner.cfg
VARIABLE scanCfg
\* ArbitrageScanner.progress
VARIABLE progress
\* ArbitrageScanner.lastReport
VARIABLE lastReport
\* the invocation of scanOnce: its locals (searched, opps, startedAt), its
\* position in the loops, the quote calls of the route in hand (quotes) and
\* the answer received last (last)
VARIABLE scan
\* number of scanOnce calls made so far
VARIABLE scans
\* the identities of the object this.progress and of the object
\* this.progress.perBaseCounts; their contents are in progress
VARIABLE live
\* the identities of the snapshot objects that getProgress has returned and
\* that its caller still holds, oldest first
VARIABLE snaps
\* the contents of the progress-shaped objects other than this.progress, by
\* identity; the field perBaseCounts holds the identity of a counts object
VARIABLE tops
\* the contents of the counts objects other than this.progress.perBaseCounts,
\* by identity
VARIABLE maps
\* a second scanner that differs from the first in its diagnostic settings
\* only and whose quotes receive the same answers: its configuration, its
\* invocation of scanOnce, its progress and its lastReport
VARIABLE twin
\* main(): its position (pc), the timer of the heartbeat (hbTimer), the
\* settings scanCfg.enabled and ARB_MIN_PROFIT_BPS, the locals opps and
\* eligible of the iteration in hand and the line it logged last
VARIABLE main
\* a caller of toPipeId: the text it passes (input), how far it is (pc), the
\* outcome of toPipeId(input) (first) and of toPipeId applied to the value
\* that came back (second)
VARIABLE norm
\* the scanner that takes the best fee tier per hop: its configuration (cfg)
\* and its invocation of scanOnce (run)
VARIABLE greedy

execVars == <<cfg, lastExecAt, recentPaths, call>>

snapVars == <<live, snaps, tops, maps>>

scanVars == <<scanCfg, progress, lastReport, scan, scans, live, snaps, tops,
              maps>>

otherVars == <<twin, main, norm, greedy>>

\* the variables other than those of the executor, the scanner and the part
\* named
exceptTwin == <<main, norm, greedy>>
exceptMain == <<twin, norm, greedy>>
exceptNorm == <<twin, main, greedy>>
exceptGreedy == <<twin, main, norm>>

vars == <<clock, cfg, lastExecAt, recentPaths, call,
          scanCfg, progress, lastReport, scan, scans, live, snaps, tops, maps,
          twin, main, norm, greedy>>

(***************************************************************************)
(* Cycle executor: helpers                                                 *)
(***************************************************************************)
\* log(level, msg, current): the line is printed unless level is below current
log(logs, level, tag, current) ==
  IF indexOf(level) < indexOf(current) THEN logs
  ELSE Append(logs, <<level, tag>>)

\* variant of minOut: the tolerance is added to the quoted output
minOutAbove(out, bps) == out * (10000 + bps)

\* minOut(out, bps) = out * (1 - bps/10000), exact; the result is kept in
\* units of 1/10000 so that it stays an integer
minOut(out, bps) == out * (10000 - bps)

\* pathHash(tokens, fees) = `${tokens.join('>')}|${fees.join(',')}`
pathHash(tokens, fees) ==
  join(tokens, <<">">>) \o <<"|">>
    \o join([k \in 1..Len(fees) |-> digits(fees[k])], <<",">>)

\* variant of HopsExceeded: the limit is taken one too high
HopsExceededOffByOne(opp, c) == opp.hops > c.maxHopsExec + 1

\* if (opp.hops > this.cfg.maxHopsExec)
HopsExceeded(opp, c) == opp.hops > c.maxHopsExec

\* variant of CooldownActive: the cooldown ends one tick early
CooldownActiveOffByOne(now, last, c) == now - last < c.cooldownMs - 1

\* if (now - this.lastExecAt < this.cfg.cooldownMs)
CooldownActive(now, last, c) == now - last < c.cooldownMs

\* variant of DedupeActive: the cooldown is used as the window
DedupeActiveCooldownWindow(now, paths, ph, c) ==
  /\ ph \in DOMAIN paths
  /\ paths[ph] # 0
  /\ now - paths[ph] < c.cooldownMs

\* if (lastSeen && (now - lastSeen) < this.cfg.dedupeWindowMs)
DedupeActive(now, paths, ph, c) ==
  /\ ph \in DOMAIN paths
  /\ paths[ph] # 0
  /\ now - paths[ph] < c.dedupeWindowMs

\* variant of Guard: the dedupe check is made before the cooldown check
GuardDedupeFirst(opp, now, last, paths, c) ==
  IF ~c.enabled THEN "disabled"
  ELSE IF HopsExceeded(opp, c) THEN "hops"
  ELSE IF DedupeActive(now, paths, pathHash(opp.tokens, opp.fees), c)
       THEN "dedupe"
  ELSE IF CooldownActive(now, last, c) THEN "cooldown"
  ELSE "pass"

\* the checks of tryExecute before the try block, in source order: the name
\* of the first one that makes the call return false, or "pass"
Guard(opp, now, last, paths, c) ==
  IF ~c.enabled THEN "disabled"
  ELSE IF HopsExceeded(opp, c) THEN "hops"
  ELSE IF CooldownActive(now, last, c) THEN "cooldown"
  ELSE IF DedupeActive(now, paths, pathHash(opp.tokens, opp.fees), c)
       THEN "dedupe"
  ELSE "pass"

IdleCall ==
  [pc |-> "idle", exit |-> "", opp |-> NoOpp, ph |-> <<>>, i |-> 0,
   amount |-> 0, out |-> 0, wakeAt |-> 0, ret |-> "pending",
   logs |-> <<>>, ev |-> <<>>]

\* return false on one of the early exits, after an optional warning
Reject(r, tag, c) ==
  [r EXCEPT !.pc = "done", !.exit = tag, !.ret = "false",
            !.logs = IF tag = "disabled" THEN @ ELSE log(@, "warn", tag, c.logLevel)]

\* variant of Catch: the error is logged and thrown again
CatchRethrow(r, c) ==
  [r EXCEPT !.pc = "done", !.exit = "aborted", !.ret = "throws",
            !.logs = log(@, "error", "erro", c.logLevel)]

\* variant of Catch: the error of one hop is swallowed inside the loop, which
\* goes on with the next hop
CatchAndContinue(r, c) ==
  IF r.i + 1 < r.opp.hops
  THEN [r EXCEPT !.pc = "quote", !.i = r.i + 1,
                 !.ev = Append(@, [op |-> "quote", hop |-> r.i + 1,
                                   tokenIn |-> r.opp.tokens[r.i + 2],
                                   tokenOut |-> r.opp.tokens[r.i + 3],
                                   amountIn |-> r.amount,
                                   fee |-> r.opp.fees[r.i + 2]])]
  ELSE [r EXCEPT !.pc = "done", !.exit = "aborted", !.ret = "false"]

\* the catch block of tryExecute: log at error level, return false
Catch(r, c) ==
  [r EXCEPT !.pc = "done", !.exit = "aborted", !.ret = "false",
            !.logs = log(@, "error", "erro", c.logLevel)]

\* the statements after the loop: log the estimate, return true
Complete(r, c) ==
  [r EXCEPT !.pc = "done", !.exit = "completed", !.ret = "true",
            !.logs = log(@, "info", "ciclo", c.logLevel)]

\* variant of LoopAt: every hop is executed with the trade amount
LoopAtTradeAmount(r, i, amount, c) ==
  IF i < r.opp.hops
  THEN LET tokenIn  == r.opp.tokens[i + 1]
           tokenOut == r.opp.tokens[i + 2]
           fee      == r.opp.fees[i + 1]
       IN  IF toPipeIdThrows(tokenIn) \/ toPipeIdThrows(tokenOut)
           THEN Catch([r EXCEPT !.i = i, !.amount = c.tradeUsd], c)
           ELSE [r EXCEPT !.pc = "quote", !.i = i, !.amount = c.tradeUsd,
                          !.ev = Append(@, [op |-> "quote", hop |-> i,
                                            tokenIn |-> toPipeId(tokenIn),
                                            tokenOut |-> toPipeId(tokenOut),
                                            amountIn |-> c.tradeUsd,
                                            fee |-> fee])]
  ELSE Complete([r EXCEPT !.i = i, !.amount = amount], c)

\* the loop of tryExecute at index i with running amount: either the body
\* runs executeHop up to its first await (the quote), or the loop is over
LoopAt(r, i, amount, c) ==
  IF i < r.opp.hops
  THEN LET tokenIn  == r.opp.tokens[i + 1]
           tokenOut == r.opp.tokens[i + 2]
           fee      == r.opp.fees[i + 1]
       IN  IF toPipeIdThrows(tokenIn) \/ toPipeIdThrows(tokenOut)
           THEN Catch([r EXCEPT !.i = i, !.amount = amount], c)
           ELSE [r EXCEPT !.pc = "quote", !.i = i, !.amount = amount,
                          !.ev = Append(@, [op |-> "quote", hop |-> i,
                                            tokenIn |-> toPipeId(tokenIn),
                                            tokenOut |-> toPipeId(tokenOut),
                                            amountIn |-> amount,
                                            fee |-> fee])]
  ELSE Complete([r EXCEPT !.i = i, !.amount = amount], c)

\* variant of Commit: an aborted cycle is recorded like a completed one
CommitAborted(r) ==
  IF r.ret = "true" \/ r.exit = "aborted"
  THEN /\ lastExecAt' = clock
       /\ recentPaths' =
            [p \in DOMAIN recentPaths \cup {r.ph} |->
               IF p = r.ph THEN clock ELSE recentPaths[p]]
  ELSE UNCHANGED <<lastExecAt, recentPaths>>

\* variant of Commit: the path is not recorded
CommitNoPath(r) ==
  IF r.ret = "true"
  THEN lastExecAt' = clock /\ UNCHANGED recentPaths
  ELSE UNCHANGED <<lastExecAt, recentPaths>>

\* this.lastExecAt = Date.now(); this.recentPaths.set(ph, this.lastExecAt)
\* when the call r has just completed, otherwise nothing
Commit(r) ==
  IF r.ret = "true"
  THEN /\ lastExecAt' = clock
       /\ recentPaths' =
            [p \in DOMAIN recentPaths \cup {r.ph} |->
               IF p = r.ph THEN clock ELSE recentPaths[p]]
  ELSE UNCHANGED <<lastExecAt, recentPaths>>

(***************************************************************************)
(* Cycle executor: the steps of tryExecute                                 *)
(***************************************************************************)
\* tryExecute(opp) from its entry to its first await or to its return; the
\* local now is read once and is dead after the checks
TryExecute(c, opp) ==
  /\ call[c].pc = "idle"
  /\ LET verdict == Guard(opp, clock, lastExecAt, recentPaths, cfg)
         r0 == [IdleCall EXCEPT !.opp = opp]
         r2 == [r0 EXCEPT !.ph = pathHash(opp.tokens, opp.fees)]
         r  == CASE verdict = "disabled" -> Reject(r0, "disabled", cfg)
                 [] verdict = "hops"     -> Reject(r0, "hops", cfg)
                 [] verdict = "cooldown" -> Reject(r0, "cooldown", cfg)
                 [] verdict = "dedupe"   -> Reject(r2, "dedupe", cfg)
                 [] OTHER                -> LoopAt(r2, 0, cfg.tradeUsd, cfg)
     IN  /\ call' = [call EXCEPT ![c] = r]
         /\ Commit(r)
  /\ UNCHANGED <<clock, cfg>>
  /\ UNCHANGED scanVars
  /\ UNCHANGED otherVars

\* executeHop after the quote resolved with output out: compute the floor,
\* log, submit the swap and await it
QuoteReturn(c, out) ==
  /\ call[c].pc = "quote"
  /\ LET r   == call[c]
         q   == r.ev[Len(r.ev)]
         min == minOut(out, cfg.maxSlippageBps)
     IN  call' = [call EXCEPT ![c] =
           [r EXCEPT !.pc = "swap", !.out = out,
                     !.logs = log(@, "info", "hop", cfg.logLevel),
                     !.ev = Append(@, [op |-> "swap", hop |-> r.i,
                                       tokenIn |-> q.tokenIn,
                                       tokenOut |-> q.tokenOut,
                                       fee |-> q.fee,
                                       exactIn |-> r.amount,
                                       amountOutMinimum |-> min])]]
  /\ UNCHANGED <<clock, cfg, lastExecAt, recentPaths>>
  /\ UNCHANGED scanVars
  /\ UNCHANGED otherVars

\* the quote rejected: the exception reaches the catch block of tryExecute
QuoteFail(c) ==
  /\ call[c].pc = "quote"
  /\ call' = [call EXCEPT ![c] = Catch(@, cfg)]
  /\ UNCHANGED <<clock, cfg, lastExecAt, recentPaths>>
  /\ UNCHANGED scanVars
  /\ UNCHANGED otherVars

\* the swap was accepted: log the txId and sleep WAIT_AFTER_SEND_MS
SwapReturn(c) ==
  /\ call[c].pc = "swap"
  /\ call' = [call EXCEPT ![c] =
       [@ EXCEPT !.pc = "sleep", !.wakeAt = clock + WAIT_AFTER_SEND_MS,
                 !.logs = log(@, "info", "enviado", cfg.logLevel)]]
  /\ UNCHANGED <<clock, cfg, lastExecAt, recentPaths>>
  /\ UNCHANGED scanVars
  /\ UNCHANGED otherVars

\* the swap submission rejected: the exception reaches the catch block
SwapFail(c) ==
  /\ call[c].pc = "swap"
  /\ call' = [call EXCEPT ![c] = Catch(@, cfg)]
  /\ UNCHANGED <<clock, cfg, lastExecAt, recentPaths>>
  /\ UNCHANGED scanVars
  /\ UNCHANGED otherVars

\* the sleep is over: executeHop returns the quoted output, the loop goes on
SleepDone(c) ==
  /\ call[c].pc = "sleep"
  /\ clock >= call[c].wakeAt
  /\ LET r == LoopAt(call[c], call[c].i + 1, call[c].out, cfg)
     IN  /\ call' = [call EXCEPT ![c] = r]
         /\ Commit(r)
  /\ UNCHANGED <<clock, cfg>>
  /\ UNCHANGED scanVars
  /\ UNCHANGED otherVars

\* the caller receives the settled promise of call c
Settle(c) ==
  /\ call[c].pc = "done"
  /\ call' = [call EXCEPT ![c] = IdleCall]
  /\ UNCHANGED <<clock, cfg, lastExecAt, recentPaths>>
  /\ UNCHANGED scanVars
  /\ UNCHANGED otherVars

(***************************************************************************)
(* Route scanner: configuration and inputs                                 *)
(***************************************************************************)
\* the value null of startedAt, lastUpdateAt and lastReport
Null == -1

\* the friendly text of a one-letter symbol
Sym(ch) == <<ch>>

\* the arrow character of the route labels
Arrow == <<"->">>

\* the friendly texts of two tokens with longer symbols
GUSDC == <<"G", "U", "S", "D", "C">>
GALA == <<"G", "A", "L", "A">>

\* the configurations of the scanner that are explored (type ScanCfg)
ScanConfigs ==
  { [baseSymbols |-> <<Sym("G")>>, tokens |-> <<Sym("G"), Sym("B"), Sym("C")>>,
     feeTiers |-> <<500>>, probeAmount |-> 100, maxHops |-> 3,
     logPairs |-> TRUE, logPairsMax |-> 1],
    [baseSymbols |-> <<Sym("G")>>, tokens |-> <<Sym("G"), Sym("B"), TokB>>,
     feeTiers |-> <<500, 3000>>, probeAmount |-> 100, maxHops |-> 2,
     logPairs |-> FALSE, logPairsMax |-> 0],
    [baseSymbols |-> <<Sym("G")>>, tokens |-> <<Sym("G"), TokBad>>,
     feeTiers |-> <<500>>, probeAmount |-> 100, maxHops |-> 2,
     logPairs |-> FALSE, logPairsMax |-> 0],
    [baseSymbols |-> <<GUSDC>>, tokens |-> <<GUSDC, GALA>>,
     feeTiers |-> <<500>>, probeAmount |-> 100, maxHops |-> 2,
     logPairs |-> FALSE, logPairsMax |-> 0],
    [baseSymbols |-> <<Sym("G")>>, tokens |-> <<>>,
     feeTiers |-> <<500>>, probeAmount |-> 100, maxHops |-> 3,
     logPairs |-> TRUE, logPairsMax |-> 1],
    [baseSymbols |-> <<Sym("G")>>, tokens |-> <<Sym("G"), Sym("B"), Sym("C")>>,
     feeTiers |-> <<>>, probeAmount |-> 100, maxHops |-> 3,
     logPairs |-> FALSE, logPairsMax |-> 0],
    [baseSymbols |-> <<Sym("D")>>,
     tokens |-> <<Sym("D"), Sym("A"), Sym("L"), Sym("S")>>,
     feeTiers |-> <<500>>, probeAmount |-> 100, maxHops |-> 4,
     logPairs |-> FALSE, logPairsMax |-> 0],
    [baseSymbols |-> <<Sym("G")>>, tokens |-> <<Sym("B"), Sym("C")>>,
     feeTiers |-> <<500>>, probeAmount |-> 100, maxHops |-> 2,
     logPairs |-> FALSE, logPairsMax |-> 0],
    [baseSymbols |-> <<Sym("D")>>, tokens |-> <<Sym("D"), Sym("A")>>,
     feeTiers |-> <<500>>, probeAmount |-> 100, maxHops |-> 2,
     logPairs |-> FALSE, logPairsMax |-> 0],
    [baseSymbols |-> <<TokBad>>, tokens |-> <<Sym("G"), Sym("B")>>,
     feeTiers |-> <<500>>, probeAmount |-> 100, maxHops |-> 2,
     logPairs |-> FALSE, logPairsMax |-> 0],
    [baseSymbols |-> <<Sym("D"), Sym("A")>>, tokens |-> <<Sym("A"), Sym("D")>>,
     feeTiers |-> <<500>>, probeAmount |-> 100, maxHops |-> 2,
     logPairs |-> FALSE, logPairsMax |-> 0] }

\* the diagnostic settings of a configuration: logPairs and logPairsMax
LogSettings ==
  {[logPairs |-> l, logPairsMax |-> m] : l \in BOOLEAN, m \in {0, 1, 3}}

\* the configuration c with the diagnostic settings d
withLog(c, d) ==
  [c EXCEPT !.logPairs = d.logPairs, !.logPairsMax = d.logPairsMax]

\* the configurations that are scanned under every diagnostic setting: the
\* ones with 2-hop and 3-hop routes over pools that may answer zero or fail
PairConfigs ==
  {c \in ScanConfigs : c.maxHops = 3 /\ Len(c.tokens) = 3 /\ c.feeTiers # <<>>}

TwinConfigs == {withLog(c, d) : c \in PairConfigs, d \in LogSettings}

\* the tokens whose pools always answer a quote, with a little more than the
\* input
SteadyTokens == {PipeOf(x) : x \in {"D", "A", "L", "S"}}

\* the outputs the quoting collaborator may answer with for the request q of
\* a scan: nothing, or a little more than the input; between the two tokens
\* with longer symbols, 1000 GALA for GUSDC and 101 or 102 GUSDC for GALA;
\* always a little more than the input from a steady token
ScanQuoteOuts(q) ==
  IF q.tokenIn = toPipeId(GUSDC) THEN {1000}
  ELSE IF q.tokenIn = toPipeId(GALA) THEN {101, 102}
  ELSE IF q.tokenIn \in SteadyTokens THEN {q.amountIn + 2}
  ELSE {0, q.amountIn + 2}

\* TRUE when the quoting collaborator may reject the request q
ScanQuoteMayFail(q) == q.tokenIn \notin SteadyTokens

(***************************************************************************)
(* Route scanner: helpers                                                  *)
(***************************************************************************)
RECURSIVE flat(_)
\* concatenation of a sequence of sequences: the body of nested for loops
flat(ss) == IF ss = <<>> THEN <<>> ELSE Head(ss) \o flat(Tail(ss))

RECURSIVE uniq(_)
\* Array.from(new Set(xs)): first occurrences, in order
uniq(xs) ==
  IF xs = <<>> THEN <<>>
  ELSE LET r == uniq(SubSeq(xs, 1, Len(xs) - 1))
           x == xs[Len(xs)]
       IN  IF \E k \in 1..Len(r) : r[k] = x THEN r ELSE Append(r, x)

\* A.split("|")[0]
symbolOf(id) == split(id, "|")[1]

\* const bases = baseSymbols.map(toPipeId)
basesOf(c) == [k \in 1..Len(c.baseSymbols) |-> toPipeId(c.baseSymbols[k])]

\* const universe = Array.from(new Set(tokens.map(toPipeId)))
universeOf(c) == uniq([k \in 1..Len(c.tokens) |-> toPipeId(c.tokens[k])])

\* one of the two map(toPipeId) calls throws
normalizeThrows(c) ==
  \/ \E k \in 1..Len(c.baseSymbols) : toPipeIdThrows(c.baseSymbols[k])
  \/ \E k \in 1..Len(c.tokens) : toPipeIdThrows(c.tokens[k])

\* variant of pow: the product of base and exponent
powLinear(b, e) == b * e

RECURSIVE pow(_, _)
\* Math.pow on naturals
pow(b, e) == IF e = 0 THEN 1 ELSE b * pow(b, e - 1)

\* variant of max0: the factor is not clamped
max0Raw(n) == n

\* Math.max(0, n)
max0(n) == IF n > 0 THEN n ELSE 0

estimateTotalQuotes(bases, tokens, fees, maxHops) ==
  LET twoHopPairs    == bases * max0(tokens - 1) * pow(fees, 2)
      twoHopQuotes   == twoHopPairs * 2
      threeHopRoutes == IF maxHops >= 3
                        THEN bases * max0(tokens - 1) * max0(tokens - 2)
                               * pow(fees, 3)
                        ELSE 0
      threeHopQuotes == threeHopRoutes * 3
  IN  twoHopQuotes + threeHopQuotes

\* variant of profitBpsOf: the ratio of the output to the probe amount
profitBpsOfRatio(out, probe) == (out * 10000) \div probe

\* out.minus(probeAmount).div(probeAmount).multipliedBy(10_000); the amounts
\* of the model make the division exact
profitBpsOf(out, probe) == ((out - probe) * 10000) \div probe

\* the entry of a base in the iteration: for (const A of bases)
BaseItem(A) ==
  [kind |-> "base", A |-> A, hops |-> 0, tokens |-> <<>>, fees |-> <<>>,
   label |-> <<>>, path |-> <<>>]

\* variant of twoHopItems: both hops always use the same fee tier
twoHopItemsSameFee(A, B, fees) ==
  [x \in 1..Len(fees) |->
     [kind |-> "route", A |-> A, hops |-> 2, tokens |-> <<A, B, A>>,
      fees |-> <<fees[x], fees[x]>>,
      label |-> symbolOf(A) \o Arrow \o symbolOf(B),
      path |-> symbolOf(A) \o <<"-", ">">> \o symbolOf(B)
                 \o <<"-", ">">> \o symbolOf(A)]]

\* the 2-hop candidates of (A, B) in loop order: for fAB, for fBA
twoHopItems(A, B, fees) ==
  flat([x \in 1..Len(fees) |->
         [y \in 1..Len(fees) |->
            [kind |-> "route", A |-> A, hops |-> 2, tokens |-> <<A, B, A>>,
             fees |-> <<fees[x], fees[y]>>,
             label |-> symbolOf(A) \o Arrow \o symbolOf(B),
             path |-> symbolOf(A) \o <<"-", ">">> \o symbolOf(B)
                        \o <<"-", ">">> \o symbolOf(A)]]])

\* variant of threeHopItems: C is only compared with A
threeHopItemsRepeatB(A, B, universe, fees) ==
  flat([z \in 1..Len(universe) |->
         LET C == universe[z]
         IN  IF C = A THEN <<>>
             ELSE flat([x \in 1..Len(fees) |->
                    flat([y \in 1..Len(fees) |->
                      [w \in 1..Len(fees) |->
                         [kind |-> "route", A |-> A, hops |-> 3,
                          tokens |-> <<A, B, C, A>>,
                          fees |-> <<fees[x], fees[y], fees[w]>>,
                          label |-> symbolOf(A) \o Arrow \o symbolOf(B)
                                      \o Arrow \o symbolOf(C),
                          path |-> symbolOf(A) \o <<"-", ">">> \o symbolOf(B)
                                     \o <<"-", ">">> \o symbolOf(C)
                                     \o <<"-", ">">> \o symbolOf(A)]]])])])

\* the 3-hop candidates of (A, B) in loop order: for C, for fAB, fBC, fCA
threeHopItems(A, B, universe, fees) ==
  flat([z \in 1..Len(universe) |->
         LET C == universe[z]
         IN  IF C = A \/ C = B THEN <<>>
             ELSE flat([x \in 1..Len(fees) |->
                    flat([y \in 1..Len(fees) |->
                      [w \in 1..Len(fees) |->
                         [kind |-> "route", A |-> A, hops |-> 3,
                          tokens |-> <<A, B, C, A>>,
                          fees |-> <<fees[x], fees[y], fees[w]>>,
                          label |-> symbolOf(A) \o Arrow \o symbolOf(B)
                                      \o Arrow \o symbolOf(C),
                          path |-> symbolOf(A) \o <<"-", ">">> \o symbolOf(B)
                                     \o <<"-", ">">> \o symbolOf(C)
                                     \o <<"-", ">">> \o symbolOf(A)]]])])])

\* the iterations of the loops of scanOnce, in order: for each base its entry,
\* then for each B of the universe other than A the 2-hop candidates and,
\* unless maxHops < 3, the 3-hop candidates
planOf(c) ==
  LET bases    == basesOf(c)
      universe == universeOf(c)
      perB(A, B) ==
        IF B = A THEN <<>>
        ELSE twoHopItems(A, B, c.feeTiers)
               \o (IF c.maxHops < 3 THEN <<>>
                   ELSE threeHopItems(A, B, universe, c.feeTiers))
      perA(A) ==
        <<BaseItem(A)>>
          \o flat([b \in 1..Len(universe) |-> perB(A, universe[b])])
  IN  flat([a \in 1..Len(bases) |-> perA(bases[a])])

\* the iterations of every explored configuration whose texts are all valid
PlanTable ==
  [c \in ScanConfigs \cup TwinConfigs |-> IF normalizeThrows(c) THEN <<>> ELSE planOf(c)]

\* private progress = { startedAt: null, ... } at construction
FreshProgress ==
  [startedAt |-> Null, lastUpdateAt |-> Null, elapsedMs |-> 0,
   pairsTried |-> 0, quotesRequested |-> 0, quotesOk |-> 0, quotesErr |-> 0,
   totalQuotesPlanned |-> 0, perBaseCounts |-> <<>>]

\* private lastReport = null
NoReport ==
  [startedAt |-> Null, finishedAt |-> Null, durationMs |-> Null,
   pairsTried |-> Null, quotesRequested |-> Null, quotesOk |-> Null,
   quotesErr |-> Null]

\* the mark of a quote call that was rejected, where an output is expected
Failed == -2

NoAnswer == [pos |-> 0, hop |-> 0, of |-> 0, out |-> Null]

IdleScan ==
  [pc |-> "idle", pos |-> 0, hop |-> 0, outs |-> <<>>, quotes |-> <<>>,
   searched |-> <<>>, opps |-> <<>>, startedAt |-> Null, printed |-> <<>>,
   last |-> NoAnswer, ret |-> "pending"]

\* the largest identity among ids, 0 when there is none
maxId(ids) == IF ids = {} THEN 0 ELSE CHOOSE n \in ids : \A m \in ids : m <= n

\* the contents of the progress-shaped object t, when this.progress is the
\* object lv.top with contents pr
topIn(pr, lv, tp, t) ==
  IF t = lv.top THEN [pr EXCEPT !.perBaseCounts = lv.counts] ELSE tp[t]

\* the contents of the counts object m, when this.progress.perBaseCounts is
\* the object lv.counts
mapIn(pr, lv, mp, m) == IF m = lv.counts THEN pr.perBaseCounts ELSE mp[m]

\* this.progress = { ..., perBaseCounts: {} }: this.progress and its counts
\* become two new objects; the two objects they replace keep their contents
\* for whoever still refers to them
newProgress(pr, lv, sn, tp, mp) ==
  [live |-> [top |-> maxId({lv.top} \cup DOMAIN tp) + 1,
             counts |-> maxId({lv.counts} \cup DOMAIN mp) + 1],
   tops |-> IF \E k \in 1..Len(sn) : sn[k] = lv.top
            THEN (lv.top :> [pr EXCEPT !.perBaseCounts = lv.counts]) @@ tp
            ELSE tp,
   maps |-> IF \/ \E k \in 1..Len(sn) : sn[k] = lv.top
               \/ \E t \in DOMAIN tp : tp[t].perBaseCounts = lv.counts
            THEN (lv.counts :> pr.perBaseCounts) @@ mp
            ELSE mp]

\* variant of spread: { ...this.progress }, the counts object is not copied
spreadShallow(pr, lv, tp, mp, t, m) ==
  [tops |-> (t :> [pr EXCEPT !.perBaseCounts = lv.counts]) @@ tp,
   maps |-> mp]

\* { ...this.progress, perBaseCounts: { ...this.progress.perBaseCounts } }:
\* a new progress-shaped object t with a new counts object m
spread(pr, lv, tp, mp, t, m) ==
  [tops |-> (t :> [pr EXCEPT !.perBaseCounts = m]) @@ tp,
   maps |-> (m :> pr.perBaseCounts) @@ mp]

\* variant of touchElapsed: elapsedMs stays as the scan left it
touchElapsedCached(pr, now) == pr

\* if (this.progress.startedAt) this.progress.elapsedMs = Date.now() - startedAt
touchElapsed(pr, now) ==
  IF pr.startedAt \notin {Null, 0}
  THEN [pr EXCEPT !.elapsedMs = now - pr.startedAt]
  ELSE pr

\* if (!this.progress.perBaseCounts[baseSym]) this.progress.perBaseCounts[baseSym] = 0
initCount(counts, sym) ==
  IF sym \in DOMAIN counts /\ counts[sym] # 0 THEN counts
  ELSE [k \in DOMAIN counts \cup {sym} |-> IF k = sym THEN 0 ELSE counts[k]]

\* variant of nextAmountIn: every hop is quoted with the probe amount
nextAmountInProbe(probe, out) == probe

\* the amountIn of the quote of the next hop: out1.toString()
nextAmountIn(probe, out) == out

\* variant of isZero: no output counts as zero
isZeroNever(v) == FALSE

\* out1.isZero()
isZero(v) == v = 0

\* variant of finishScan: the progress is cleared when the scan returns
finishScanReset(s, p, c, now) ==
  LET max == IF c.logPairsMax < Len(s.searched) THEN c.logPairsMax
             ELSE Len(s.searched)
  IN  [scan |-> [s EXCEPT !.pc = "done", !.pos = 0, !.hop = 0, !.outs = <<>>,
                          !.quotes = <<>>, !.ret = "opps",
                          !.printed = IF c.logPairs /\ Len(s.searched) > 0
                                      THEN SubSeq(s.searched, 1, max)
                                      ELSE <<>>],
       progress |-> FreshProgress,
       report |-> [startedAt |-> s.startedAt, finishedAt |-> now,
                   durationMs |-> now - s.startedAt,
                   pairsTried |-> p.pairsTried,
                   quotesRequested |-> p.quotesRequested,
                   quotesOk |-> p.quotesOk, quotesErr |-> p.quotesErr]]

\* the statements after the loops: print the retained labels, write
\* lastReport, return opps
finishScan(s, p, c, now) ==
  LET max == IF c.logPairsMax < Len(s.searched) THEN c.logPairsMax
             ELSE Len(s.searched)
  IN  [scan |-> [s EXCEPT !.pc = "done", !.pos = 0, !.hop = 0, !.outs = <<>>,
                          !.quotes = <<>>, !.ret = "opps",
                          !.printed = IF c.logPairs /\ Len(s.searched) > 0
                                      THEN SubSeq(s.searched, 1, max)
                                      ELSE <<>>],
       progress |-> p,
       report |-> [startedAt |-> s.startedAt, finishedAt |-> now,
                   durationMs |-> now - s.startedAt,
                   pairsTried |-> p.pairsTried,
                   quotesRequested |-> p.quotesRequested,
                   quotesOk |-> p.quotesOk, quotesErr |-> p.quotesErr]]

\* variant of startRoute: a candidate is counted only while labels are
\* still retained
startRouteCapped(s, p, rep, pos, item, c, now) ==
  LET sym == symbolOf(item.A)
      kept == ~c.logPairs \/ Len(s.searched) < c.logPairsMax
  IN  [scan |-> [s EXCEPT !.pc = "quote", !.pos = pos, !.hop = 1,
                          !.outs = <<>>,
                          !.searched =
                             IF c.logPairs /\ Len(@) < c.logPairsMax
                             THEN Append(@, item.label) ELSE @,
                          !.quotes = <<[tokenIn |-> item.tokens[1],
                                        tokenOut |-> item.tokens[2],
                                        amountIn |-> c.probeAmount,
                                        fee |-> item.fees[1]]>>],
       progress |-> [p EXCEPT !.pairsTried = IF kept THEN @ + 1 ELSE @,
                              !.perBaseCounts[sym] = @ + 1,
                              !.lastUpdateAt = now,
                              !.quotesRequested = @ + 1],
       report |-> rep]

\* variant of startRoute: the count of the base is left as it is
startRouteNoBaseCount(s, p, rep, pos, item, c, now) ==
  LET sym == symbolOf(item.A)
  IN  [scan |-> [s EXCEPT !.pc = "quote", !.pos = pos, !.hop = 1,
                          !.outs = <<>>,
                          !.searched =
                             IF c.logPairs /\ Len(@) < c.logPairsMax
                             THEN Append(@, item.label) ELSE @,
                          !.quotes = <<[tokenIn |-> item.tokens[1],
                                        tokenOut |-> item.tokens[2],
                                        amountIn |-> c.probeAmount,
                                        fee |-> item.fees[1]]>>],
       progress |-> [p EXCEPT !.pairsTried = @ + 1,
                              !.perBaseCounts[sym] = @,
                              !.lastUpdateAt = now,
                              !.quotesRequested = @ + 1],
       report |-> rep]

\* variant of startRoute: every label is retained while logPairs is on
startRouteUncapped(s, p, rep, pos, item, c, now) ==
  LET sym == symbolOf(item.A)
  IN  [scan |-> [s EXCEPT !.pc = "quote", !.pos = pos, !.hop = 1,
                          !.outs = <<>>,
                          !.searched =
                             IF c.logPairs
                             THEN Append(@, item.label) ELSE @,
                          !.quotes = <<[tokenIn |-> item.tokens[1],
                                        tokenOut |-> item.tokens[2],
                                        amountIn |-> c.probeAmount,
                                        fee |-> item.fees[1]]>>],
       progress |-> [p EXCEPT !.pairsTried = @ + 1,
                              !.perBaseCounts[sym] = @ + 1,
                              !.lastUpdateAt = now,
                              !.quotesRequested = @ + 1],
       report |-> rep]

\* the head of the innermost loop body for the candidate item at position
\* pos, up to the await of its first quote
startRoute(s, p, rep, pos, item, c, now) ==
  LET sym == symbolOf(item.A)
  IN  [scan |-> [s EXCEPT !.pc = "quote", !.pos = pos, !.hop = 1,
                          !.outs = <<>>,
                          !.searched =
                             IF c.logPairs /\ Len(@) < c.logPairsMax
                             THEN Append(@, item.label) ELSE @,
                          !.quotes = <<[tokenIn |-> item.tokens[1],
                                        tokenOut |-> item.tokens[2],
                                        amountIn |-> c.probeAmount,
                                        fee |-> item.fees[1]]>>],
       progress |-> [p EXCEPT !.pairsTried = @ + 1,
                              !.perBaseCounts[sym] = @ + 1,
                              !.lastUpdateAt = now,
                              !.quotesRequested = @ + 1],
       report |-> rep]

RECURSIVE advance(_, _, _, _, _, _)
\* the loops of scanOnce from position pos on: up to the first quote of the
\* next candidate, or to the return when there is none
advance(s, p, rep, pos, c, now) ==
  LET plan == PlanTable[c]
  IN  IF pos > Len(plan) THEN finishScan(s, p, c, now)
      ELSE IF plan[pos].kind = "base"
      THEN advance(s, [p EXCEPT !.perBaseCounts =
                                  initCount(@, symbolOf(plan[pos].A))],
                   rep, pos + 1, c, now)
      ELSE startRoute(s, p, rep, pos, plan[pos], c, now)

\* the continuation of a resolved quote with output v
onQuoteOk(s, p, rep, v, c, now) ==
  LET item == PlanTable[c][s.pos]
      h    == s.hop
      p1   == [p EXCEPT !.quotesOk = @ + 1]
      s1   == [s EXCEPT !.last = [pos |-> s.pos, hop |-> h, of |-> item.hops,
                                  out |-> v]]
  IN  IF h < item.hops
      THEN IF isZero(v)
           THEN advance(s1, p1, rep, s.pos + 1, c, now)
           ELSE [scan |-> [s1 EXCEPT !.hop = h + 1, !.outs = Append(@, v),
                                     !.quotes = Append(@,
                                        [tokenIn |-> item.tokens[h + 1],
                                         tokenOut |-> item.tokens[h + 2],
                                         amountIn |-> nextAmountIn(c.probeAmount, v),
                                         fee |-> item.fees[h + 1]])],
                 progress |-> [p1 EXCEPT !.quotesRequested = @ + 1],
                 report |-> rep]
      ELSE advance([s1 EXCEPT !.opps = Append(@,
                      [hops |-> item.hops, tokens |-> item.tokens,
                       fees |-> item.fees, path |-> item.path,
                       profitBps |-> profitBpsOf(v, c.probeAmount)])],
                   p1, rep, s.pos + 1, c, now)

\* variant of onQuoteErr: the error is not caught and leaves scanOnce
onQuoteErrThrow(s, p, rep, c, now) ==
  [scan |-> [s EXCEPT !.pc = "failed", !.ret = "throws",
                      !.last = [pos |-> s.pos, hop |-> s.hop,
                                of |-> PlanTable[c][s.pos].hops,
                                out |-> Failed]],
   progress |-> p, report |-> rep]

\* variant of onQuoteErr: the failure is counted as an answer and as an error
onQuoteErrBoth(s, p, rep, c, now) ==
  LET item == PlanTable[c][s.pos]
  IN  advance([s EXCEPT !.last = [pos |-> s.pos, hop |-> s.hop,
                                  of |-> item.hops, out |-> Failed]],
              [p EXCEPT !.quotesErr = @ + 1, !.quotesOk = @ + 1],
              rep, s.pos + 1, c, now)

\* the catch block of a candidate: count the error, go to the next candidate
onQuoteErr(s, p, rep, c, now) ==
  LET item == PlanTable[c][s.pos]
  IN  advance([s EXCEPT !.last = [pos |-> s.pos, hop |-> s.hop,
                                  of |-> item.hops, out |-> Failed]],
              [p EXCEPT !.quotesErr = @ + 1], rep, s.pos + 1, c, now)

\* scanOnce from its entry on, for a scanner with progress p and report rep:
\* up to its first await, its return or its throw
enterScan(p, rep, c, now) ==
  IF normalizeThrows(c)
  THEN [scan |-> [IdleScan EXCEPT !.pc = "failed", !.ret = "throws"],
        progress |-> p, report |-> rep]
  ELSE advance([IdleScan EXCEPT !.startedAt = now],
               [FreshProgress EXCEPT
                  !.startedAt = now, !.lastUpdateAt = now,
                  !.totalQuotesPlanned =
                     estimateTotalQuotes(Len(basesOf(c)), Len(universeOf(c)),
                                         Len(c.feeTiers), c.maxHops)],
               rep, 1, c, now)

(***************************************************************************)
(* Route scanner: the steps of scanOnce                                    *)
(***************************************************************************)
\* variant of ScanEnter: the progress is reset before the texts are
\* normalized
ScanEnterResetFirst ==
  /\ scan.pc = "idle"
  /\ scans' = scans + 1
  /\ IF normalizeThrows(scanCfg)
     THEN /\ scan' = [IdleScan EXCEPT !.pc = "failed", !.ret = "throws"]
          /\ progress' = [FreshProgress EXCEPT !.startedAt = clock,
                                               !.lastUpdateAt = clock]
          /\ UNCHANGED <<lastReport, live, tops, maps>>
     ELSE LET p0 == [FreshProgress EXCEPT
                       !.startedAt = clock, !.lastUpdateAt = clock,
                       !.totalQuotesPlanned =
                          estimateTotalQuotes(Len(basesOf(scanCfg)),
                                              Len(universeOf(scanCfg)),
                                              Len(scanCfg.feeTiers),
                                              scanCfg.maxHops)]
              s0 == [IdleScan EXCEPT !.startedAt = clock]
              r  == advance(s0, p0, lastReport, 1, scanCfg, clock)
              n  == newProgress(progress, live, snaps, tops, maps)
          IN  /\ scan' = r.scan
              /\ progress' = r.progress
              /\ lastReport' = r.report
              /\ live' = n.live
              /\ tops' = n.tops
              /\ maps' = n.maps
  /\ UNCHANGED <<clock, scanCfg, snaps>>
  /\ UNCHANGED execVars

\* scanOnce from its entry to its first await, its return or its throw
ScanEnter ==
  /\ scan.pc = "idle"
  /\ scans' = scans + 1
  /\ IF normalizeThrows(scanCfg)
     THEN /\ scan' = [IdleScan EXCEPT !.pc = "failed", !.ret = "throws"]
          /\ UNCHANGED <<progress, lastReport, live, tops, maps>>
     ELSE LET p0 == [FreshProgress EXCEPT
                       !.startedAt = clock, !.lastUpdateAt = clock,
                       !.totalQuotesPlanned =
                          estimateTotalQuotes(Len(basesOf(scanCfg)),
                                              Len(universeOf(scanCfg)),
                                              Len(scanCfg.feeTiers),
                                              scanCfg.maxHops)]
              s0 == [IdleScan EXCEPT !.startedAt = clock]
              r  == advance(s0, p0, lastReport, 1, scanCfg, clock)
              n  == newProgress(progress, live, snaps, tops, maps)
          IN  /\ scan' = r.scan
              /\ progress' = r.progress
              /\ lastReport' = r.report
              /\ live' = n.live
              /\ tops' = n.tops
              /\ maps' = n.maps
  /\ UNCHANGED <<clock, scanCfg, snaps>>
  /\ UNCHANGED execVars

\* scanOnce is entered by the only scanner there is
ScanBegin == ScanEnter /\ UNCHANGED otherVars

\* a call of scanOnce, among the MaxScans calls that are explored
ScanOnce == scans < MaxScans /\ ScanBegin

\* the awaited quote resolves with the output v
ScanAnswer(v) ==
  /\ scan.pc = "quote"
  /\ v \in ScanQuoteOuts(scan.quotes[Len(scan.quotes)])
  /\ LET r == onQuoteOk(scan, progress, lastReport, v, scanCfg, clock)
     IN  /\ scan' = r.scan
         /\ progress' = r.progress
         /\ lastReport' = r.report
  /\ UNCHANGED <<clock, scanCfg, scans>>
  /\ UNCHANGED snapVars
  /\ UNCHANGED execVars

\* the awaited quote resolves with some output
ScanQuoteReturn ==
  /\ scan.pc = "quote"
  /\ \E v \in ScanQuoteOuts(scan.quotes[Len(scan.quotes)]) : ScanAnswer(v)
  /\ UNCHANGED otherVars

\* the awaited quote rejects
ScanReject ==
  /\ scan.pc = "quote"
  /\ ScanQuoteMayFail(scan.quotes[Len(scan.quotes)])
  /\ LET r == onQuoteErr(scan, progress, lastReport, scanCfg, clock)
     IN  /\ scan' = r.scan
         /\ progress' = r.progress
         /\ lastReport' = r.report
  /\ UNCHANGED <<clock, scanCfg, scans>>
  /\ UNCHANGED snapVars
  /\ UNCHANGED execVars

\* the awaited quote of the only scanner there is rejects
ScanQuoteFail == ScanReject /\ UNCHANGED otherVars

\* the main loop receives the result of scanOnce
ScanCollect ==
  /\ scan.pc \in {"done", "failed"}
  /\ scan' = IdleScan
  /\ UNCHANGED <<clock, scanCfg, progress, lastReport, scans>>
  /\ UNCHANGED snapVars
  /\ UNCHANGED execVars

\* the main loop receives the result of the only scanner there is
ScanSettle == ScanCollect /\ UNCHANGED otherVars

(***************************************************************************)
(* Route scanner: getProgress and its caller                               *)
(***************************************************************************)
\* getProgress(): refresh elapsedMs, return a new object to the caller
GetProgress ==
  /\ Len(snaps) < MaxSnaps
  /\ LET r == spread(touchElapsed(progress, clock), live, tops, maps,
                     maxId({live.top} \cup DOMAIN tops) + 1,
                     maxId({live.counts} \cup DOMAIN maps) + 1)
     IN  /\ tops' = r.tops
         /\ maps' = r.maps
  /\ progress' = touchElapsed(progress, clock)
  /\ snaps' = Append(snaps, maxId({live.top} \cup DOMAIN tops) + 1)
  /\ UNCHANGED <<clock, scanCfg, lastReport, scan, scans, live>>
  /\ UNCHANGED execVars
  /\ UNCHANGED otherVars

\* the caller of getProgress assigns v to the field pairsTried of the k-th
\* object it holds and to entry b of the perBaseCounts of that object
CallerWrite(k, b, v) ==
  /\ k \in 1..Len(snaps)
  /\ progress' =
       [progress EXCEPT
          !.pairsTried = IF snaps[k] = live.top THEN v ELSE @,
          !.perBaseCounts =
             IF topIn(progress, live, tops, snaps[k]).perBaseCounts = live.counts
             THEN (b :> v) @@ @ ELSE @]
  /\ tops' = IF snaps[k] = live.top THEN tops
             ELSE [tops EXCEPT ![snaps[k]].pairsTried = v]
  /\ maps' = IF topIn(progress, live, tops, snaps[k]).perBaseCounts = live.counts
             THEN maps
             ELSE [maps EXCEPT
                     ![topIn(progress, live, tops, snaps[k]).perBaseCounts] =
                        (b :> v) @@ @]
  /\ UNCHANGED <<clock, scanCfg, lastReport, scan, scans, live, snaps>>
  /\ UNCHANGED execVars
  /\ UNCHANGED otherVars

(***************************************************************************)
(* Route scanner: two scanners that differ in their diagnostic settings    *)
(***************************************************************************)
\* the second scanner with the outcome r of a step of its scanOnce
twinWith(r) ==
  [twin EXCEPT !.scan = r.scan, !.progress = r.progress, !.report = r.report]

\* both scanners enter scanOnce at the same time
PairBegin ==
  /\ twin.scan.pc = "idle"
  /\ ScanEnter
  /\ twin' = twinWith(enterScan(twin.progress, twin.report, twin.cfg, clock))
  /\ UNCHANGED exceptTwin

\* both scanners await the same quote, which resolves with the output v for
\* both
PairQuoteReturn ==
  /\ scan.pc = "quote"
  /\ twin.scan.pc = "quote"
  /\ twin.scan.quotes[Len(twin.scan.quotes)] = scan.quotes[Len(scan.quotes)]
  /\ \E v \in ScanQuoteOuts(scan.quotes[Len(scan.quotes)]) :
       /\ ScanAnswer(v)
       /\ twin' = twinWith(onQuoteOk(twin.scan, twin.progress, twin.report,
                                     v, twin.cfg, clock))
  /\ UNCHANGED exceptTwin

\* both scanners await the same quote, which rejects for both
PairQuoteFail ==
  /\ scan.pc = "quote"
  /\ twin.scan.pc = "quote"
  /\ twin.scan.quotes[Len(twin.scan.quotes)] = scan.quotes[Len(scan.quotes)]
  /\ ScanReject
  /\ twin' = twinWith(onQuoteErr(twin.scan, twin.progress, twin.report,
                                 twin.cfg, clock))
  /\ UNCHANGED exceptTwin

\* the results of both scanners are received
PairSettle ==
  /\ twin.scan.pc \in {"done", "failed"}
  /\ ScanCollect
  /\ twin' = [twin EXCEPT !.scan = IdleScan]
  /\ UNCHANGED exceptTwin

(***************************************************************************)
(* Greedy scanner (best fee per hop): configuration and inputs             *)
(***************************************************************************)
\* const toKey = (sym) => `${sym}|Unit|none|none`
toKey(sym) ==
  sym \o <<"|">> \o UnitText \o <<"|">> \o NoneText \o <<"|">> \o NoneText

\* pairKey(a, b) = `${a}->${b}`
pairKey(a, b) == a \o <<"-", ">">> \o b

\* the configurations of the greedy scanner that are explored (type
\* ArbScannerConfig; slippagePct, intervalMs and logLevel play no part, and
\* logSearchedPairs is off)
GreedyConfigs ==
  [enabled : BOOLEAN, tokens : {<<Sym("G"), Sym("B"), Sym("C")>>},
   baseSymbol : {Sym("G")},
   feeTiers : {<<500, 3000>>, <<3000, 500>>, <<500>>, <<>>},
   probeUsd : {100}, maxHops : {2, 3}, minProfitBps : {350}]

\* the outputs the quoting collaborator may answer with for the request q of
\* the greedy scanner: always one more than the input out of G into B and
\* out of C into G; one more or nothing out of G into C and out of B into G;
\* one or two more between B and C
GreedyQuoteOuts(q) ==
  IF q.tokenIn = toKey(Sym("G")) \/ q.tokenOut = toKey(Sym("G"))
  THEN {q.amountIn + 1}
  ELSE {q.amountIn + 1, q.amountIn + 2}

\* TRUE when the quoting collaborator may reject the request q
GreedyQuoteMayFail(q) ==
  ~ \/ q.tokenIn = toKey(Sym("G")) /\ q.tokenOut = toKey(Sym("B"))
    \/ q.tokenIn = toKey(Sym("C")) /\ q.tokenOut = toKey(Sym("G"))

(***************************************************************************)
(* Greedy scanner: helpers                                                 *)
(***************************************************************************)
\* the pairs (A, B) of the 2-hop loops, in loop order
pairsOf(c) ==
  LET perB(A, B) == IF A = B \/ A # c.baseSymbol THEN <<>> ELSE <<(<<A, B>>)>>
      perA(A) == flat([j \in 1..Len(c.tokens) |-> perB(A, c.tokens[j])])
  IN  flat([i \in 1..Len(c.tokens) |-> perA(c.tokens[i])])

\* the triangles (A, B, C) of the 3-hop loops, in loop order
trianglesOf(c) ==
  LET perC(A, B, C) == IF C = A \/ C = B THEN <<>> ELSE <<(<<A, B, C>>)>>
      perB(A, B) ==
        IF B = A THEN <<>>
        ELSE flat([k \in 1..Len(c.tokens) |-> perC(A, B, c.tokens[k])])
      perA(A) ==
        IF A # c.baseSymbol THEN <<>>
        ELSE flat([j \in 1..Len(c.tokens) |-> perB(A, c.tokens[j])])
  IN  flat([i \in 1..Len(c.tokens) |-> perA(c.tokens[i])])

PairTable == [c \in GreedyConfigs |-> pairsOf(c)]

TriangleTable == [c \in GreedyConfigs |-> trianglesOf(c)]

\* best = null
NoBest == [fee |-> Null, out |-> Null]

\* no call of bestFeeOut has returned
NoCall ==
  [cand |-> 0, hop |-> 0, amountIn |-> Null, asked |-> <<>>, got |-> <<>>,
   best |-> NoBest]

\* no request is awaited
NoRequest == [tokenIn |-> <<>>, tokenOut |-> <<>>, amountIn |-> Null,
              fee |-> Null]

\* the greedy scanner before scanOnce is called: the section of scanOnce (2
\* for the round trips, 3 for the triangles), the pair or triangle in hand
\* (cand), the positions in the fee loops (i, j; j = 0 while the first hop
\* is quoted), the output of the first hop of a round trip (out1), the
\* request that is awaited (req); of the call of bestFeeOut in hand its hop,
\* tier index k, amountIn, best, the requests it made (asked) and their
\* answers (got); the results of the earlier hops of the triangle (bests),
\* the call of bestFeeOut that returned last (lastCall), what became of each
\* triangle (fates); the locals opps, checked and searchedPairs (stats), the
\* list that is logged (top), and the calls of quoteExactIn that have
\* returned, each with its pair key, its fee and whether it returned ok
\* (calls)
IdleGreedy ==
  [pc |-> "idle", sec |-> 0, cand |-> 0, i |-> 0, j |-> 0, out1 |-> Null,
   req |-> NoRequest, hop |-> 0, k |-> 0, amountIn |-> Null, best |-> NoBest,
   asked |-> <<>>, got |-> <<>>, bests |-> <<>>, lastCall |-> NoCall,
   fates |-> <<>>, opps |-> <<>>, checked |-> 0, stats |-> <<>>,
   top |-> <<>>, calls |-> <<>>]

\* no greedy scanner
NoGreedy == [cfg |-> Null, run |-> IdleGreedy]

\* if (!pairStatsMap.has(pkey)) pairStatsMap.set(pkey, {...}), then
\* attempted.add(fee)
attempt(stats, pkey, fee) ==
  IF pkey \in DOMAIN stats
  THEN [stats EXCEPT ![pkey].attempted = @ \cup {fee}]
  ELSE (pkey :> [attempted |-> {fee}, okFees |-> {}, errors |-> 0]) @@ stats

\* quoteExactIn(gswap, tin, tout, amountIn, stats, fee) up to its await
\* (every call in the repository passes a fee, so the branch without one is
\* never taken)
quoteExactIn(g, tin, tout, amountIn, fee) ==
  [g EXCEPT !.pc = "quote",
            !.req = [tokenIn |-> tin, tokenOut |-> tout,
                     amountIn |-> amountIn, fee |-> fee],
            !.stats = attempt(@, pairKey(tin, tout), fee)]

\* variant of quoteSettled: the fee counts as ok whatever the answer
quoteSettledOkFirst(g, res) ==
  LET pkey == pairKey(g.req.tokenIn, g.req.tokenOut)
  IN  [g EXCEPT !.req = NoRequest,
                !.calls = Append(@, [pair |-> pkey, fee |-> g.req.fee,
                                     ok |-> res # Failed]),
                !.stats = IF res = Failed
                          THEN [@ EXCEPT ![pkey].errors = @ + 1,
                                         ![pkey].okFees = @ \cup {g.req.fee}]
                          ELSE [@ EXCEPT ![pkey].okFees = @ \cup {g.req.fee}]]

\* quoteExactIn after its await: okFees.add(fee), or the catch block
quoteSettled(g, res) ==
  LET pkey == pairKey(g.req.tokenIn, g.req.tokenOut)
  IN  [g EXCEPT !.req = NoRequest,
                !.calls = Append(@, [pair |-> pkey, fee |-> g.req.fee,
                                     ok |-> res # Failed]),
                !.stats = IF res = Failed
                          THEN [@ EXCEPT ![pkey].errors = @ + 1]
                          ELSE [@ EXCEPT ![pkey].okFees = @ \cup {g.req.fee}]]

\* isProfitable(pct) for pct = (out - probeUsd) / probeUsd * 100:
\* pct >= minProfitBps / 100, with both sides multiplied by 100 * probeUsd
isProfitable(out, c) == (out - c.probeUsd) * 10000 >= c.minProfitBps * c.probeUsd

\* o placed into the list sorted by (a, b) => b.pct - a.pct (all entries have
\* the same inAmt, so pct orders as outAmt does)
insertByPct(sorted, o) ==
  LET k == Cardinality({n \in 1..Len(sorted) : sorted[n].outAmt >= o.outAmt})
  IN  SubSeq(sorted, 1, k) \o <<o>> \o SubSeq(sorted, k + 1, Len(sorted))

RECURSIVE sortByPct(_)
\* opps.sort((a, b) => b.pct - a.pct)
sortByPct(opps) ==
  IF opps = <<>> THEN <<>>
  ELSE insertByPct(sortByPct(SubSeq(opps, 1, Len(opps) - 1)), opps[Len(opps)])

\* the statements after the loops: sort opps, log the top 5, return
finishGreedy(g, c) ==
  [g EXCEPT !.pc = "done", !.opps = sortByPct(@),
            !.top = SubSeq(sortByPct(g.opps), 1,
                           IF Len(g.opps) < 5 THEN Len(g.opps) ELSE 5)]

\* the token keys of hop h of the triangle t
hopIn(t, h) == toKey(t[h])
hopOut(t, h) == toKey(t[(h % 3) + 1])

\* the next request of the call of bestFeeOut in hand: tier k
askTier(g, c) ==
  LET t == TriangleTable[c][g.cand]
      q == quoteExactIn(g, hopIn(t, g.hop), hopOut(t, g.hop), g.amountIn,
                        c.feeTiers[g.k])
  IN  [q EXCEPT !.asked = Append(@, q.req)]

\* if (!best || q.out.gt(best.out))
better(best, out) == best = NoBest \/ out > best.out

RECURSIVE bestFeeOut(_, _, _, _)
RECURSIVE bestFeeOutReturn(_, _)
RECURSIVE nextTriangle(_, _)
\* bestFeeOut(tokenIn, tokenOut, amountIn, stats) for hop h of the triangle
\* in hand, up to its first await or, without fee tiers, to its return
bestFeeOut(g, h, amountIn, c) ==
  IF c.feeTiers = <<>>
  THEN bestFeeOutReturn([g EXCEPT !.hop = h, !.k = 0, !.amountIn = amountIn,
                                  !.best = NoBest, !.asked = <<>>,
                                  !.got = <<>>], c)
  ELSE askTier([g EXCEPT !.hop = h, !.k = 1, !.amountIn = amountIn,
                         !.best = NoBest, !.asked = <<>>, !.got = <<>>], c)

\* return best, and what the triangle loop does with it: checked +=
\* feeTiers.length, continue when it is null, the next hop with best.out as
\* input, or after the third hop the profit test and opps.push
bestFeeOutReturn(g, c) ==
  IF g.best = NoBest
  THEN nextTriangle([g EXCEPT !.lastCall = [cand |-> g.cand, hop |-> g.hop,
                                            amountIn |-> g.amountIn,
                                            asked |-> g.asked, got |-> g.got,
                                            best |-> g.best],
                              !.checked = @ + Len(c.feeTiers),
                              !.fates = Append(@, "discarded")], c)
  ELSE IF g.hop < 3
  THEN bestFeeOut([g EXCEPT !.lastCall = [cand |-> g.cand, hop |-> g.hop,
                                          amountIn |-> g.amountIn,
                                          asked |-> g.asked, got |-> g.got,
                                          best |-> g.best],
                            !.checked = @ + Len(c.feeTiers),
                            !.bests = Append(@, g.best)],
                  g.hop + 1, g.best.out, c)
  ELSE nextTriangle([g EXCEPT !.lastCall = [cand |-> g.cand, hop |-> g.hop,
                                            amountIn |-> g.amountIn,
                                            asked |-> g.asked, got |-> g.got,
                                            best |-> g.best],
                              !.checked = @ + Len(c.feeTiers),
                              !.fates = Append(@, "evaluated"),
                              !.opps =
                                 IF isProfitable(g.best.out, c)
                                 THEN Append(@,
                                        [hops |-> 3,
                                         tokens |-> TriangleTable[c][g.cand],
                                         fees |-> <<g.bests[1].fee,
                                                    g.bests[2].fee,
                                                    g.best.fee>>,
                                         inAmt |-> c.probeUsd,
                                         outAmt |-> g.best.out])
                                 ELSE @], c)

\* the triangle loops after the triangle in hand
nextTriangle(g, c) ==
  IF g.cand < Len(TriangleTable[c])
  THEN bestFeeOut([g EXCEPT !.sec = 3, !.cand = @ + 1, !.bests = <<>>,
                            !.i = 0, !.j = 0, !.out1 = Null],
                  1, c.probeUsd, c)
  ELSE finishGreedy(g, c)

\* the end of the 2-hop loops: if (maxHops >= 3) the triangle loops
afterPairs(g, c) ==
  IF c.maxHops >= 3 THEN nextTriangle([g EXCEPT !.cand = 0], c)
  ELSE finishGreedy(g, c)

RECURSIVE twoHopFirst(_, _, _, _)
\* the 2-hop loops from pair p and first fee index i on, up to the first quote
twoHopFirst(g, p, i, c) ==
  IF p > Len(PairTable[c]) THEN afterPairs(g, c)
  ELSE IF i > Len(c.feeTiers) THEN twoHopFirst(g, p + 1, 1, c)
  ELSE quoteExactIn([g EXCEPT !.sec = 2, !.cand = p, !.i = i, !.j = 0,
                              !.out1 = Null],
                    toKey(PairTable[c][p][1]), toKey(PairTable[c][p][2]),
                    c.probeUsd, c.feeTiers[i])

\* the inner fee loop of a round trip from second fee index j on
twoHopSecond(g, j, c) ==
  IF j > Len(c.feeTiers) THEN twoHopFirst(g, g.cand, g.i + 1, c)
  ELSE quoteExactIn([g EXCEPT !.j = j],
                    toKey(PairTable[c][g.cand][2]),
                    toKey(PairTable[c][g.cand][1]),
                    g.out1, c.feeTiers[j])

\* the continuation of a settled quote of a round trip: res is the output or
\* Failed
onPairQuote(g, res, c) ==
  IF g.j = 0
  THEN IF res = Failed
       THEN twoHopFirst([g EXCEPT !.checked = @ + 1], g.cand, g.i + 1, c)
       ELSE twoHopSecond([g EXCEPT !.checked = @ + 1, !.out1 = res], 1, c)
  ELSE twoHopSecond(
         [g EXCEPT !.checked = @ + 1,
                   !.opps = IF res # Failed /\ isProfitable(res, c)
                            THEN Append(@,
                                   [hops |-> 2,
                                    tokens |-> PairTable[c][g.cand],
                                    fees |-> <<c.feeTiers[g.i],
                                               c.feeTiers[g.j]>>,
                                    inAmt |-> c.probeUsd, outAmt |-> res])
                            ELSE @],
         g.j + 1, c)

\* variant of onTierQuote: of two tiers with the same output the later wins
onTierQuoteLatest(g, res, c) ==
  IF g.k < Len(c.feeTiers)
  THEN askTier([g EXCEPT !.got = Append(@, res), !.k = @ + 1,
                         !.best = IF res # Failed /\ (@ = NoBest \/ res >= @.out)
                                  THEN [fee |-> c.feeTiers[g.k], out |-> res]
                                  ELSE @], c)
  ELSE bestFeeOutReturn(
         [g EXCEPT !.got = Append(@, res),
                   !.best = IF res # Failed /\ (@ = NoBest \/ res >= @.out)
                            THEN [fee |-> c.feeTiers[g.k], out |-> res]
                            ELSE @], c)

\* the continuation of a settled quote inside bestFeeOut: keep the better
\* result, go on with the next tier or return
onTierQuote(g, res, c) ==
  IF g.k < Len(c.feeTiers)
  THEN askTier([g EXCEPT !.got = Append(@, res), !.k = @ + 1,
                         !.best = IF res # Failed /\ better(@, res)
                                  THEN [fee |-> c.feeTiers[g.k], out |-> res]
                                  ELSE @], c)
  ELSE bestFeeOutReturn(
         [g EXCEPT !.got = Append(@, res),
                   !.best = IF res # Failed /\ better(@, res)
                            THEN [fee |-> c.feeTiers[g.k], out |-> res]
                            ELSE @], c)

\* the continuation of a settled quote
onGreedyQuote(g, res, c) ==
  IF g.sec = 2 THEN onPairQuote(quoteSettled(g, res), res, c)
  ELSE onTierQuote(quoteSettled(g, res), res, c)

(***************************************************************************)
(* Greedy scanner: the steps of scanOnce                                   *)
(***************************************************************************)
\* scanOnce from its entry to its first await or to its return
GreedyBegin ==
  /\ greedy.run.pc = "idle"
  /\ greedy' = [greedy EXCEPT !.run =
                  IF ~greedy.cfg.enabled THEN [IdleGreedy EXCEPT !.pc = "done"]
                  ELSE twoHopFirst(IdleGreedy, 1, 1, greedy.cfg)]
  /\ UNCHANGED clock
  /\ UNCHANGED exceptGreedy
  /\ UNCHANGED execVars
  /\ UNCHANGED scanVars

\* the awaited quote resolves with some output
GreedyQuoteReturn ==
  /\ greedy.run.pc = "quote"
  /\ \E v \in GreedyQuoteOuts(greedy.run.req) :
       greedy' = [greedy EXCEPT !.run = onGreedyQuote(@, v, greedy.cfg)]
  /\ UNCHANGED clock
  /\ UNCHANGED exceptGreedy
  /\ UNCHANGED execVars
  /\ UNCHANGED scanVars

\* the awaited quote rejects
GreedyQuoteFail ==
  /\ greedy.run.pc = "quote"
  /\ GreedyQuoteMayFail(greedy.run.req)
  /\ greedy' = [greedy EXCEPT !.run = onGreedyQuote(@, Failed, greedy.cfg)]
  /\ UNCHANGED clock
  /\ UNCHANGED exceptGreedy
  /\ UNCHANGED execVars
  /\ UNCHANGED scanVars

(***************************************************************************)
(* Main loop: helpers                                                      *)
(***************************************************************************)
\* the longest list that scanOnce hands to the main loop
MaxOpps == 3

\* the Opportunities that scanOnce hands to the main loop: two routes, each
\* with any of four profits
MainOpps ==
  {[path |-> r.path, hops |-> r.hops, profitBps |-> b] :
     r \in {[path |-> "p", hops |-> 2], [path |-> "q", hops |-> 3]},
     b \in {-200, 0, 150, 300}}

\* the lists that scanOnce hands to the main loop
OppLists == UNION {[1..n -> MainOpps] : n \in 0..MaxOpps}

\* the values of ARB_MIN_PROFIT_BPS that are explored
MinProfits == {0, 100}

\* bpsToPct: bps / 100, as a fraction
bpsToPct(bps) == [num |-> bps, den |-> 100]

\* opps.map(o => ({ ...o, pct: o.pct ?? bpsToPct(o.profitBps ?? 0) }))
enrich(opps) ==
  [i \in 1..Len(opps) |->
     [path |-> opps[i].path, hops |-> opps[i].hops,
      profitBps |-> opps[i].profitBps, pct |-> bpsToPct(opps[i].profitBps)]]

\* variant of keep: the threshold is not applied
keepAll(opps, min) == opps

\* .filter(o => (o.profitBps ?? 0) >= ARB_MIN_PROFIT_BPS)
keep(opps, min) ==
  LET qualifies(o) == o.profitBps >= min IN SelectSeq(opps, qualifies)

\* (a, b) => (b.profitBps ?? 0) - (a.profitBps ?? 0)
compare(a, b) == b.profitBps - a.profitBps

\* variant of insert: o goes before the elements it compares equal to
insertBeforeTies(sorted, o) ==
  LET k == Cardinality({i \in 1..Len(sorted) : compare(sorted[i], o) < 0})
  IN  SubSeq(sorted, 1, k) \o <<o>> \o SubSeq(sorted, k + 1, Len(sorted))

\* o placed into the sorted list: after every element that the comparator
\* does not put behind it (Array.prototype.sort is stable)
insert(sorted, o) ==
  LET k == Cardinality({i \in 1..Len(sorted) : compare(sorted[i], o) <= 0})
  IN  SubSeq(sorted, 1, k) \o <<o>> \o SubSeq(sorted, k + 1, Len(sorted))

RECURSIVE sortByProfit(_)
\* .sort((a,b) => (b.profitBps ?? 0) - (a.profitBps ?? 0))
sortByProfit(opps) ==
  IF opps = <<>> THEN <<>>
  ELSE insert(sortByProfit(SubSeq(opps, 1, Len(opps) - 1)), opps[Len(opps)])

\* const eligible = enriched.filter(...).sort(...)
eligibleOf(opps, min) == sortByProfit(keep(enrich(opps), min))

\* nothing logged yet
NoLine == [kind |-> "none", path |-> "", pct |-> Null, hops |-> Null]

\* main() and its settings when the main loop is left out: hbTimer is TRUE
\* while the variable hbTimer holds a timer, and timers is the number of
\* interval timers that are set and not cleared
NoMain ==
  [pc |-> "off", hbTimer |-> FALSE, timers |-> 0, enabled |-> FALSE,
   minProfitBps |-> 0, opps |-> <<>>, eligible |-> <<>>, line |-> NoLine]

\* variant of stopHeartbeat: the variable is reset and the timer is not
\* cleared
stopHeartbeatForget(m) == [m EXCEPT !.hbTimer = FALSE]

\* stopHeartbeat(): if (hbTimer) { clearInterval(hbTimer); hbTimer = null }
stopHeartbeat(m) ==
  IF m.hbTimer THEN [m EXCEPT !.hbTimer = FALSE, !.timers = @ - 1] ELSE m

\* startHeartbeat(): stopHeartbeat(); hbTimer = setInterval(...)
startHeartbeat(m) ==
  [stopHeartbeat(m) EXCEPT !.hbTimer = TRUE, !.timers = @ + 1]

\* variant of loopHead: the loop is left once an iteration has failed
loopHeadStopOnError(m) ==
  IF m.line.kind = "loop error" THEN [m EXCEPT !.pc = "returned"]
  ELSE IF ~m.enabled THEN [m EXCEPT !.pc = "sleeping"]
  ELSE [startHeartbeat(m) EXCEPT !.pc = "scanning"]

\* the head of an iteration, up to its first await: the sleep of a disabled
\* scanner, or startHeartbeat() and the call of scanOnce
loopHead(m) ==
  IF ~m.enabled THEN [m EXCEPT !.pc = "sleeping"]
  ELSE [startHeartbeat(m) EXCEPT !.pc = "scanning"]

(***************************************************************************)
(* Main loop: the steps of main                                            *)
(***************************************************************************)
\* main() is called: the first iteration starts
MainStart ==
  /\ main.pc = "start"
  /\ main' = loopHead(main)
  /\ UNCHANGED clock
  /\ UNCHANGED exceptMain
  /\ UNCHANGED execVars
  /\ UNCHANGED scanVars

\* the iteration after scanOnce resolved with the list opps: stopHeartbeat,
\* rank, log the best candidate or that there is none, then sleep
afterScan(m, opps) ==
  LET eligible == eligibleOf(opps, m.minProfitBps)
  IN  [stopHeartbeat(m) EXCEPT
         !.pc = "sleeping", !.opps = opps,
         !.eligible = eligible,
         !.line = IF Len(eligible) > 0
                  THEN [kind |-> "candidate",
                        path |-> eligible[1].path,
                        pct |-> eligible[1].pct,
                        hops |-> eligible[1].hops]
                  ELSE [NoLine EXCEPT !.kind = "no candidate"]]

\* the catch block of the iteration: stopHeartbeat, log the error, sleep
afterThrow(m) ==
  [stopHeartbeat(m) EXCEPT
     !.pc = "sleeping", !.opps = <<>>, !.eligible = <<>>,
     !.line = [NoLine EXCEPT !.kind = "loop error"]]

\* scanOnce resolves with the list opps
MainScanReturn(opps) ==
  /\ main.pc = "scanning"
  /\ main' = afterScan(main, opps)
  /\ UNCHANGED clock
  /\ UNCHANGED exceptMain
  /\ UNCHANGED execVars
  /\ UNCHANGED scanVars

\* scanOnce rejects: the catch block stops the heartbeat, logs the error and
\* sleeps
MainScanThrow ==
  /\ main.pc = "scanning"
  /\ main' = afterThrow(main)
  /\ UNCHANGED clock
  /\ UNCHANGED exceptMain
  /\ UNCHANGED execVars
  /\ UNCHANGED scanVars

\* the sleep ends: the next iteration starts
MainWake ==
  /\ main.pc = "sleeping"
  /\ main' = loopHead([main EXCEPT !.opps = <<>>, !.eligible = <<>>])
  /\ UNCHANGED clock
  /\ UNCHANGED exceptMain
  /\ UNCHANGED execVars
  /\ UNCHANGED scanVars

(***************************************************************************)
(* Main loop: the steps of main with the scanner it calls                  *)
(***************************************************************************)
\* the iteration m starts: for an enabled scanner startHeartbeat() and the
\* call of scanOnce up to its first await, its return or its throw
Iterate(m) ==
  /\ scans < MaxRounds
  /\ main' = loopHead(m)
  /\ IF m.enabled THEN ScanEnter
     ELSE UNCHANGED clock /\ UNCHANGED scanVars /\ UNCHANGED execVars
  /\ UNCHANGED exceptMain

\* main() is called
LoopStart == main.pc = "start" /\ Iterate(main)

\* the sleep ends
LoopWake ==
  /\ main.pc = "sleeping"
  /\ Iterate([main EXCEPT !.opps = <<>>, !.eligible = <<>>])

\* the awaited scanOnce resolves with its Opportunities
LoopScanReturn ==
  /\ main.pc = "scanning"
  /\ scan.pc = "done"
  /\ ScanCollect
  /\ main' = afterScan(main, scan.opps)
  /\ UNCHANGED exceptMain

\* the awaited scanOnce rejects
LoopScanThrow ==
  /\ main.pc = "scanning"
  /\ scan.pc = "failed"
  /\ ScanCollect
  /\ main' = afterThrow(main)
  /\ UNCHANGED exceptMain

(***************************************************************************)
(* Token identifier normalizer: the steps of a caller                      *)
(***************************************************************************)
\* toPipeId(input)
NormCall ==
  /\ norm.pc = "ready"
  /\ norm' = [norm EXCEPT !.pc = "once", !.first = outcomeOf(norm.input)]
  /\ UNCHANGED clock
  /\ UNCHANGED exceptNorm
  /\ UNCHANGED execVars
  /\ UNCHANGED scanVars

\* toPipeId(toPipeId(input)), when the inner call returned
NormAgain ==
  /\ norm.pc = "once"
  /\ ~norm.first.throws
  /\ norm' = [norm EXCEPT !.pc = "twice",
                          !.second = outcomeOf(norm.first.value)]
  /\ UNCHANGED clock
  /\ UNCHANGED exceptNorm
  /\ UNCHANGED execVars
  /\ UNCHANGED scanVars

(***************************************************************************)
(* Specifications                                                          *)
(***************************************************************************)
\* no second scanner
NoTwin ==
  [cfg |-> Null, scan |-> IdleScan, progress |-> FreshProgress,
   report |-> NoReport]

\* the parts of the program that a specification leaves out
OthersIdle ==
  /\ twin = NoTwin
  /\ main = NoMain
  /\ norm = NoNorm
  /\ greedy = NoGreedy

\* time passes
Tick ==
  /\ clock < MaxTime
  /\ clock' = clock + 1
  /\ UNCHANGED execVars
  /\ UNCHANGED scanVars
  /\ UNCHANGED otherVars

\* the executor after new ArbitrageExecutor(gswap, c)
ExecConstructed(c) ==
  /\ cfg = c
  /\ lastExecAt = 0
  /\ recentPaths = <<>>
  /\ call = [k \in Calls |-> IdleCall]

\* the scanner after new ArbitrageScanner(gswap, c)
ScanConstructed(c) ==
  /\ scanCfg = c
  /\ progress = FreshProgress
  /\ lastReport = NoReport
  /\ scan = IdleScan
  /\ scans = 0
  /\ live = [top |-> 1, counts |-> 1]
  /\ snaps = <<>>
  /\ tops = <<>>
  /\ maps = <<>>

InitExec ==
  /\ clock = ClockStart
  /\ OthersIdle
  /\ \E c \in ExecConfigs : ExecConstructed(c)
  /\ ScanConstructed(CHOOSE c \in ScanConfigs : c.maxHops = 3)

\* one caller: a call starts only when no other call is in flight
NextExec ==
  \/ \E c \in Calls, opp \in Opps :
       (\A d \in Calls : call[d].pc = "idle") /\ TryExecute(c, opp)
  \/ \E c \in Calls, out \in QuoteOuts : QuoteReturn(c, out)
  \/ \E c \in Calls : QuoteFail(c)
  \/ \E c \in Calls : SwapReturn(c)
  \/ \E c \in Calls : SwapFail(c)
  \/ \E c \in Calls : SleepDone(c)
  \/ \E c \in Calls : Settle(c)
  \/ Tick

SpecExec == InitExec /\ [][NextExec]_vars

\* the executors on which calls of tryExecute overlap: enabled, with a
\* cooldown and a dedupe window
OverlapConfigs ==
  {c \in ExecConfigs : /\ c.enabled
                        /\ c.maxHopsExec = 2
                        /\ c.maxSlippageBps = 50
                        /\ c.logLevel = "error"}

\* the opportunities handed to overlapping calls: two round trips over the
\* same tokens with different fee tiers
OverlapOpps == {o \in Opps : o.hops = 2 /\ o.tokens[3] = TokG}

\* the output the quoting collaborator answers with while calls overlap
OverlapOuts == {o \in QuoteOuts : o > 100}

InitOverlap ==
  /\ clock = ClockStart
  /\ OthersIdle
  /\ \E c \in OverlapConfigs : ExecConstructed(c)
  /\ ScanConstructed(CHOOSE c \in ScanConfigs : c.maxHops = 3)

\* several callers: a call may start while another one awaits a quote, a
\* swap submission or the sleep between hops
NextOverlap ==
  \/ \E c \in Calls, opp \in OverlapOpps : TryExecute(c, opp)
  \/ \E c \in Calls, out \in OverlapOuts : QuoteReturn(c, out)
  \/ \E c \in Calls : QuoteFail(c)
  \/ \E c \in Calls : SwapReturn(c)
  \/ \E c \in Calls : SwapFail(c)
  \/ \E c \in Calls : SleepDone(c)
  \/ \E c \in Calls : Settle(c)
  \/ Tick

SpecOverlap == InitOverlap /\ [][NextOverlap]_vars

\* time passes during the life of the scanner
ScanTick ==
  /\ clock < ClockStart + ScanHorizon
  /\ clock' = clock + 1
  /\ UNCHANGED execVars
  /\ UNCHANGED scanVars
  /\ UNCHANGED otherVars

InitScan ==
  /\ clock = ClockStart
  /\ OthersIdle
  /\ ExecConstructed(CHOOSE c \in ExecConfigs : ~c.enabled)
  /\ \E c \in ScanConfigs : ScanConstructed(c)

NextScan ==
  \/ ScanOnce
  \/ ScanQuoteReturn
  \/ ScanQuoteFail
  \/ ScanSettle
  \/ ScanTick

SpecScan == InitScan /\ [][NextScan]_vars

\* the configurations explored while snapshots are taken: one route
SnapConfigs == {c \in ScanConfigs : c.tokens = <<Sym("D"), Sym("A")>>}

\* the value that the caller of getProgress writes
Scribble == 99

InitSnap ==
  /\ clock = ClockStart
  /\ OthersIdle
  /\ ExecConstructed(CHOOSE c \in ExecConfigs : ~c.enabled)
  /\ \E c \in SnapConfigs : ScanConstructed(c)

\* the pools of the explored configuration always answer
NextSnap ==
  \/ scans < SnapScans /\ ScanBegin
  \/ ScanQuoteReturn
  \/ ScanSettle
  \/ ScanTick
  \/ GetProgress
  \/ \E k \in 1..MaxSnaps : CallerWrite(k, Sym("D"), Scribble)

SpecSnap == InitSnap /\ [][NextSnap]_vars

\* two scanners built over the same tokens, fee tiers and probe amount, the
\* second with any diagnostic settings
InitPair ==
  /\ clock = ClockStart
  /\ ExecConstructed(CHOOSE c \in ExecConfigs : ~c.enabled)
  /\ \E c \in PairConfigs, d \in LogSettings :
       /\ ScanConstructed(c)
       /\ twin = [NoTwin EXCEPT !.cfg = withLog(c, d)]
  /\ main = NoMain
  /\ norm = NoNorm
  /\ greedy = NoGreedy

\* both scanners read the same clock, which stays where it is
NextPair ==
  \/ scans < MaxScans /\ PairBegin
  \/ PairQuoteReturn
  \/ PairQuoteFail
  \/ PairSettle

SpecPair == InitPair /\ [][NextPair]_vars

\* a caller with any of the texts
InitNorm ==
  /\ clock = ClockStart
  /\ ExecConstructed(CHOOSE c \in ExecConfigs : ~c.enabled)
  /\ ScanConstructed(CHOOSE c \in ScanConfigs : c.maxHops = 3)
  /\ twin = NoTwin
  /\ main = NoMain
  /\ greedy = NoGreedy
  /\ \E x \in NormInputs : norm = [NoNorm EXCEPT !.pc = "ready", !.input = x]

NextNorm ==
  \/ NormCall
  \/ NormAgain

SpecNorm == InitNorm /\ [][NextNorm]_vars

\* the greedy scanner after new ArbitrageScanner(gswap, c)
InitGreedy ==
  /\ clock = ClockStart
  /\ ExecConstructed(CHOOSE c \in ExecConfigs : ~c.enabled)
  /\ ScanConstructed(CHOOSE c \in ScanConfigs : c.maxHops = 3)
  /\ twin = NoTwin
  /\ main = NoMain
  /\ norm = NoNorm
  /\ \E c \in GreedyConfigs : greedy = [cfg |-> c, run |-> IdleGreedy]

\* one call of scanOnce
NextGreedy ==
  \/ GreedyBegin
  \/ GreedyQuoteReturn
  \/ GreedyQuoteFail

SpecGreedy == InitGreedy /\ [][NextGreedy]_vars

\* the process at the call of main(), under any of the explored settings
InitMain ==
  /\ clock = ClockStart
  /\ ExecConstructed(CHOOSE c \in ExecConfigs : ~c.enabled)
  /\ ScanConstructed(CHOOSE c \in ScanConfigs : c.maxHops = 3)
  /\ twin = NoTwin
  /\ norm = NoNorm
  /\ greedy = NoGreedy
  /\ \E e \in BOOLEAN, min \in MinProfits :
       main = [NoMain EXCEPT !.pc = "start", !.enabled = e,
                             !.minProfitBps = min]

\* scanOnce is represented by its outcome: a list of Opportunities, or an
\* exception
NextMain ==
  \/ MainStart
  \/ \E opps \in OppLists : MainScanReturn(opps)
  \/ MainScanThrow
  \/ MainWake

\* the scanners that the main loop calls: those with an invalid text and
\* those over two tokens
LoopConfigs == {c \in ScanConfigs : normalizeThrows(c) \/ Len(c.tokens) = 2}

InitLoop ==
  /\ clock = ClockStart
  /\ ExecConstructed(CHOOSE c \in ExecConfigs : ~c.enabled)
  /\ \E c \in LoopConfigs : ScanConstructed(c)
  /\ twin = NoTwin
  /\ norm = NoNorm
  /\ greedy = NoGreedy
  /\ \E e \in BOOLEAN, min \in MinProfits :
       main = [NoMain EXCEPT !.pc = "start", !.enabled = e,
                             !.minProfitBps = min]

NextLoop ==
  \/ LoopStart
  \/ ScanQuoteReturn
  \/ ScanQuoteFail
  \/ LoopScanReturn
  \/ LoopScanThrow
  \/ LoopWake
  \/ ScanTick

SpecLoop == InitLoop /\ [][NextLoop]_vars

\* the timer of sleep fires
SpecMain == InitMain /\ [][NextMain]_vars /\ WF_vars(MainWake)

(***************************************************************************)
(* Properties of the cycle executor                                        *)
(***************************************************************************)
\* call c enters tryExecute in this step
Began(c) == call[c].pc = "idle" /\ call'[c].pc # "idle"

\* call c returned false in this step before issuing any quote or swap
RejectedAtOnce(c) ==
  /\ call'[c].pc = "done"
  /\ call'[c].ret = "false"
  /\ call'[c].ev = <<>>

\* the collaborator invocations of kind op that record r made for hop h
EvOf(r, op, h) == {k \in 1..Len(r.ev) : r.ev[k].op = op /\ r.ev[k].hop = h}

\* C1: a tryExecute of a path signature that was executed less than
\* dedupeWindowMs ago returns false without any quote or swap; once
\* dedupeWindowMs has elapsed since that execution (and no other check
\* applies) the same path is not rejected any more.
C1_DedupeGuard ==
  [][\A c \in Calls :
       Began(c) =>
         LET o  == call'[c].opp
             ph == pathHash(o.tokens, o.fees)
         IN  /\ ( /\ ph \in DOMAIN recentPaths
                  /\ clock - recentPaths[ph] < cfg.dedupeWindowMs )
                  => RejectedAtOnce(c)
             /\ ( /\ ph \in DOMAIN recentPaths
                  /\ clock - recentPaths[ph] >= cfg.dedupeWindowMs
                  /\ clock - lastExecAt >= cfg.cooldownMs
                  /\ cfg.enabled
                  /\ o.hops <= cfg.maxHopsExec )
                  => /\ call'[c].exit \notin {"dedupe", "cooldown", "hops", "disabled"}
                     /\ call'[c].ev # <<>>
  ]_vars

\* a call was rejected by the dedupe check although the cooldown had elapsed
C1_Witness ==
  \E c \in Calls :
    /\ call[c].exit = "dedupe"
    /\ call[c].ret = "false"
    /\ call[c].ev = <<>>
    /\ call[c].ph \in DOMAIN recentPaths
    /\ clock - lastExecAt >= cfg.cooldownMs

\* the same path was accepted again after the window had elapsed
C1_EligibleAgain ==
  \E c \in Calls :
    /\ call[c].pc = "quote"
    /\ call[c].i = 0
    /\ cfg.dedupeWindowMs > 0
    /\ call[c].ph \in DOMAIN recentPaths

\* C2: after a successful execution, every tryExecute entered less than
\* cooldownMs later returns false without any quote or swap, whatever its
\* path signature.
C2_CooldownGuard ==
  [][\A c \in Calls :
       ( /\ Began(c)
         /\ lastExecAt # 0
         /\ clock - lastExecAt < cfg.cooldownMs )
       => RejectedAtOnce(c)
  ]_vars

\* a call for a path that was never executed was rejected by the cooldown
C2_Witness ==
  \E c \in Calls :
    /\ call[c].exit = "cooldown"
    /\ call[c].ret = "false"
    /\ call[c].ev = <<>>
    /\ lastExecAt # 0
    /\ pathHash(call[c].opp.tokens, call[c].opp.fees) \notin DOMAIN recentPaths

C4_AbortOnHopFailure ==
  [][\A c \in Calls :
       LET r == call[c]
           n == call'[c]
       IN  /\ (r.pc = "quote" /\ n # r) =>
                \/ n.pc = "swap" /\ n.i = r.i
                \/ /\ n.pc = "done" /\ n.exit = "aborted" /\ n.ret = "false"
                   /\ n.ev = r.ev /\ n.i = r.i
           /\ (r.pc = "swap" /\ n # r) =>
                \/ n.pc = "sleep" /\ n.i = r.i /\ n.ev = r.ev
                \/ /\ n.pc = "done" /\ n.exit = "aborted" /\ n.ret = "false"
                   /\ n.ev = r.ev /\ n.i = r.i
           /\ (r.exit = "aborted" /\ n # r) => n = IdleCall
           /\ n.exit = "aborted" =>
                /\ \A k \in 1..Len(n.ev) : n.ev[k].hop <= n.i
                /\ \A h \in 0..n.i :
                     /\ Cardinality(EvOf(n, "quote", h)) <= 1
                     /\ Cardinality(EvOf(n, "swap", h)) <= 1
                /\ \A h \in 0..(n.i - 1) :
                     \E k \in EvOf(n, "swap", h) :
                       /\ n.ev[k].tokenIn = n.opp.tokens[h + 1]
                       /\ n.ev[k].tokenOut = n.opp.tokens[h + 2]
                /\ lastExecAt' = lastExecAt
                /\ recentPaths' = recentPaths
  ]_vars

\* a call was aborted at its second hop after the swap of the first hop
C4_Witness ==
  \E c \in Calls :
    /\ call[c].exit = "aborted"
    /\ call[c].i = 1
    /\ EvOf(call[c], "swap", 0) # {}
    /\ EvOf(call[c], "swap", 1) = {}

\* C5: tryExecute returns true only when every hop 0..hops-1 has been quoted
\* and submitted, and the step that returns true sets lastExecAt and the
\* entry of the executed path in recentPaths to the time of that step.
C5_CompletionCommits ==
  [][\A c \in Calls :
       (call'[c].ret = "true" /\ call[c].ret # "true") =>
         LET n  == call'[c]
             ph == pathHash(n.opp.tokens, n.opp.fees)
         IN  /\ \A h \in 0..(n.opp.hops - 1) :
                  /\ EvOf(n, "quote", h) # {}
                  /\ EvOf(n, "swap", h) # {}
             /\ lastExecAt' = clock'
             /\ ph \in DOMAIN recentPaths'
             /\ recentPaths'[ph] = lastExecAt'
  ]_vars

\* a call has returned true
C5_Witness ==
  \E c \in Calls :
    /\ call[c].ret = "true"
    /\ call[c].ph \in DOMAIN recentPaths
    /\ recentPaths[call[c].ph] = lastExecAt

\* C6: tryExecute of an opportunity with more hops than maxHopsExec returns
\* false without any quote or swap.
C6_HopsBound ==
  [][\A c \in Calls :
       (Began(c) /\ call'[c].opp.hops > cfg.maxHopsExec) => RejectedAtOnce(c)
  ]_vars

\* an enabled executor rejected a 3-hop opportunity under a limit of 2
C6_Witness ==
  \E c \in Calls :
    /\ call[c].exit = "hops"
    /\ call[c].ret = "false"
    /\ cfg.enabled
    /\ call[c].opp.hops > cfg.maxHopsExec

\* C7: the checks are evaluated in the order hop bound, cooldown, dedupe and
\* the first failing one decides the rejection; a quote or swap is issued
\* only when all three pass; a cooldown or dedupe rejection logs one line at
\* warn level (printed when the log level admits warn) and never an error
\* line; a call in Executing ends Completed or Aborted.
C7_StateMachine ==
  [][\A c \in Calls :
       LET r == call[c]
           n == call'[c]
       IN  /\ (Began(c) /\ cfg.enabled) =>
                LET o    == n.opp
                    ph   == pathHash(o.tokens, o.fees)
                    hops == o.hops > cfg.maxHopsExec
                    cool == clock - lastExecAt < cfg.cooldownMs
                    dup  == /\ ph \in DOMAIN recentPaths
                            /\ clock - recentPaths[ph] < cfg.dedupeWindowMs
                IN  /\ n.exit = "hops" <=> hops
                    /\ n.exit = "cooldown" <=> (~hops /\ cool)
                    /\ n.exit = "dedupe" <=> (~hops /\ ~cool /\ dup)
                    /\ n.ev # <<>> => (~hops /\ ~cool /\ ~dup)
                    /\ n.exit \in {"cooldown", "dedupe"} =>
                         n.logs = IF cfg.logLevel \in {"debug", "info", "warn"}
                                  THEN <<(<<"warn", n.exit>>)>> ELSE <<>>
           /\ (r.pc \in {"quote", "swap", "sleep"} /\ n # r) =>
                \/ n.pc \in {"quote", "swap", "sleep"}
                \/ n.pc = "done" /\ n.exit \in {"completed", "aborted"}
           /\ n.exit \in {"hops", "cooldown", "dedupe", "disabled"} =>
                /\ n.ev = <<>>
                /\ \A k \in 1..Len(n.logs) : n.logs[k][1] # "error"
  ]_vars

\* a call was rejected by the cooldown while its path was also inside the
\* dedupe window
C7_Witness ==
  \E c \in Calls :
    /\ call[c].exit = "cooldown"
    /\ LET ph == pathHash(call[c].opp.tokens, call[c].opp.fees)
       IN  /\ ph \in DOMAIN recentPaths
           /\ clock - recentPaths[ph] < cfg.dedupeWindowMs
    /\ call[c].logs = <<(<<"warn", "cooldown">>)>>

\* C27: a step of a call that does not return true (a rejection by the
\* enabled flag, the hop bound, the cooldown or the dedupe check, a quote or
\* swap answer, an abort at any hop, the hand-over of a result) leaves
\* lastExecAt and recentPaths as they are; calls do not overlap, so a call
\* that returns false ends with both as they were when it began
C27_FalseLeavesGuardState ==
  [][\A c \in Calls :
       (call'[c] # call[c] /\ call'[c].ret # "true") =>
         /\ lastExecAt' = lastExecAt
         /\ recentPaths' = recentPaths
  ]_vars

\* C27 witness: after an earlier execution was recorded, a call was aborted
\* at its second hop, after the swap of its first hop was submitted
C27_Witness ==
  \E c \in Calls :
    /\ call[c].ret = "false"
    /\ call[c].exit = "aborted"
    /\ call[c].i = 1
    /\ EvOf(call[c], "swap", 0) # {}
    /\ lastExecAt > 0
    /\ recentPaths # <<>>

\* C28: the invocations of a call alternate quote, swap, quote, swap, ...,
\* one quote and then one swap for hop 0, 1, 2, ... in turn, each at the fee
\* tier and between the tokens the opportunity names for that hop; the quote
\* of hop 0 is for the trade amount and the swap of a hop for the amount of
\* its quote; and the quote that follows the sleep of hop i is for the
\* output that the quote of hop i answered
C28_HopChain ==
  [][\A c \in Calls :
       LET r == call[c]
           n == call'[c]
       IN  /\ \A k \in 1..Len(n.ev) :
                /\ n.ev[k].hop = (k - 1) \div 2
                /\ n.ev[k].op = IF k % 2 = 1 THEN "quote" ELSE "swap"
                /\ n.ev[k].fee = n.opp.fees[n.ev[k].hop + 1]
                /\ n.ev[k].tokenIn = toPipeId(n.opp.tokens[n.ev[k].hop + 1])
                /\ n.ev[k].tokenOut = toPipeId(n.opp.tokens[n.ev[k].hop + 2])
                /\ k % 2 = 0 => n.ev[k].exactIn = n.ev[k - 1].amountIn
           /\ n.ev # <<>> => n.ev[1].amountIn = cfg.tradeUsd
           /\ (r.pc = "sleep" /\ n.pc = "quote") =>
                /\ Len(n.ev) = Len(r.ev) + 1
                /\ n.ev[Len(n.ev)].amountIn = r.out
           /\ (r.pc = "quote" /\ n.pc = "swap") => Len(n.ev) = Len(r.ev) + 1
           /\ (n # r /\ ~(r.pc = "sleep" /\ n.pc = "quote")
                    /\ ~(r.pc = "quote" /\ n.pc = "swap")
                    /\ ~Began(c) /\ n # IdleCall) => n.ev = r.ev
           /\ n.ret = "true" => Len(n.ev) = 2 * n.opp.hops
  ]_vars

\* C28 witness: a 3-hop cycle was completed whose second hop was quoted for
\* an amount other than the trade amount
C28_Witness ==
  \E c \in Calls :
    /\ call[c].ret = "true"
    /\ call[c].opp.hops = 3
    /\ Len(call[c].ev) = 6
    /\ call[c].ev[3].amountIn # cfg.tradeUsd
    /\ call[c].ev[5].amountIn # call[c].ev[3].amountIn

\* C29: a swap is submitted with the running amount as exact input and with
\* quotedOutput * (1 - maxSlippageBps/10000) as minimum output (both sides
\* in units of 1/10000); for the explored tolerances, which lie between 0
\* and 10000, the minimum lies between 0 and the quoted output, and it is
\* the quoted output when the tolerance is 0
C29_SlippageFloor ==
  \A c \in Calls :
    call[c].pc = "swap" =>
      LET e == call[c].ev[Len(call[c].ev)]
      IN  /\ e.op = "swap"
          /\ e.exactIn = call[c].amount
          /\ e.amountOutMinimum = call[c].out * (10000 - cfg.maxSlippageBps)
          /\ cfg.maxSlippageBps \in 0..10000
          /\ 0 <= e.amountOutMinimum
          /\ e.amountOutMinimum <= call[c].out * 10000
          /\ cfg.maxSlippageBps = 0 => e.amountOutMinimum = call[c].out * 10000

\* C29 witness: the swap of a second hop was submitted under a tolerance of
\* 50, with a minimum strictly between 0 and the quoted output
C29_Witness ==
  \E c \in Calls :
    /\ call[c].pc = "swap"
    /\ call[c].i = 1
    /\ cfg.maxSlippageBps = 50
    /\ call[c].ev[Len(call[c].ev)].amountOutMinimum = call[c].out * 9950
    /\ call[c].ev[Len(call[c].ev)].exactIn # cfg.tradeUsd

(***************************************************************************)
(* Properties of the route scanner                                         *)
(***************************************************************************)
\* the plan of the configured scan
ThePlan == PlanTable[scanCfg]

\* TRUE for the explored configurations with a text that toPipeId rejects
ThrowsTable == [c \in ScanConfigs |-> normalizeThrows(c)]

\* scanOnce of the configured scanner throws on its token texts
Throws == ThrowsTable[scanCfg]

\* the positions of the candidates of the plan after position pos
RoutesAfter(pos) ==
  {k \in (pos + 1)..Len(ThePlan) : ThePlan[k].kind = "route"}

\* the scan goes on with the candidate that follows position pos, or returns
\* when there is none
GoesOnAfter(pos) ==
  IF RoutesAfter(pos) = {}
  THEN scan'.pc = "done" /\ scan'.ret = "opps"
  ELSE /\ scan'.pc = "quote"
       /\ scan'.hop = 1
       /\ scan'.pos = CHOOSE k \in RoutesAfter(pos) :
                        \A j \in RoutesAfter(pos) : k <= j

\* the quote awaited in this state is answered in this step with output v
\* (Failed for a rejected quote)
Answered(v) ==
  /\ scan.pc = "quote"
  /\ scan'.last = [pos |-> scan.pos, hop |-> scan.hop,
                   of |-> ThePlan[scan.pos].hops, out |-> v]

\* C8: while a candidate is being quoted, one quote call was made for each
\* hop reached, in hop order and with the tokens and fee of that hop; the
\* first was made with probeAmount, each later one with exactly the output
\* answered for the hop before it, and only the last one is unanswered; no
\* quote is pending when the scan is not awaiting one.
C8_SequentialQuotes ==
  /\ scan.pc = "quote" =>
       LET item == ThePlan[scan.pos]
           q    == scan.quotes
       IN  /\ item.kind = "route"
           /\ scan.hop \in 1..item.hops
           /\ Len(q) = scan.hop
           /\ Len(scan.outs) = scan.hop - 1
           /\ q[1].amountIn = scanCfg.probeAmount
           /\ \A k \in 1..(Len(q) - 1) : q[k + 1].amountIn = scan.outs[k]
           /\ \A k \in 1..Len(q) :
                /\ q[k].tokenIn = item.tokens[k]
                /\ q[k].tokenOut = item.tokens[k + 1]
                /\ q[k].fee = item.fees[k]
           /\ progress.quotesRequested
                = progress.quotesOk + progress.quotesErr + 1
  /\ scan.pc # "quote" =>
       /\ scan.quotes = <<>>
       /\ progress.quotesRequested = progress.quotesOk + progress.quotesErr

\* the third hop of a candidate is being quoted with the output of the second
C8_Witness ==
  /\ scan.pc = "quote"
  /\ scan.hop = 3
  /\ scan.quotes[3].amountIn = scan.outs[2]
  /\ scan.outs[2] # scan.outs[1]
  /\ scan.outs[1] # scanCfg.probeAmount

\* C9 as stated: a zero output at any hop, the last included, leaves the list
\* of opportunities as it was, and the scan goes on with the next candidate.
C9_ZeroAnyHopDiscards ==
  [][Answered(0) => /\ scan'.opps = scan.opps
                    /\ GoesOnAfter(scan.pos)
  ]_vars

\* C9 amended: a zero output at a hop other than the last discards the
\* candidate (no opportunity, no further quote of it) and the scan goes on
\* with the next candidate; a zero output at the last hop completes the
\* candidate, which yields an opportunity with profitBps = -10000.
C9_ZeroBeforeLastDiscards ==
  [][Answered(0) =>
       /\ GoesOnAfter(scan.pos)
       /\ IF scan.hop < ThePlan[scan.pos].hops
          THEN scan'.opps = scan.opps
          ELSE /\ Len(scan'.opps) = Len(scan.opps) + 1
               /\ SubSeq(scan'.opps, 1, Len(scan.opps)) = scan.opps
               /\ scan'.opps[Len(scan'.opps)].profitBps = -10000
               /\ scan'.opps[Len(scan'.opps)].tokens = ThePlan[scan.pos].tokens
  ]_vars

\* a 3-hop candidate was discarded for a zero output at its second hop and
\* the next candidate is being quoted
C9_Witness ==
  /\ scan.last.out = 0
  /\ scan.last.hop = 2
  /\ scan.last.of = 3
  /\ scan.pc = "quote"
  /\ scan.pos > scan.last.pos
  /\ scan.opps = <<>>

\* C10: a rejected quote at any hop leaves the list of opportunities as it
\* was, adds exactly one to quotesErr and nothing to quotesOk, does not leave
\* scanOnce as an exception, and the scan goes on with the next candidate;
\* a scan that returns has attempted every candidate of its plan.
C10_QuoteFailureDiscardsOne ==
  [][/\ Answered(Failed) =>
          /\ scan'.opps = scan.opps
          /\ progress'.quotesErr = progress.quotesErr + 1
          /\ progress'.quotesOk = progress.quotesOk
          /\ progress'.pairsTried
               = progress.pairsTried + (IF scan'.pc = "quote" THEN 1 ELSE 0)
          /\ scan'.ret # "throws"
          /\ GoesOnAfter(scan.pos)
     /\ scan'.pc = "done" =>
          progress'.pairsTried = Cardinality(RoutesAfter(0))
  ]_vars

\* a quote of the second hop was rejected and the next candidate is being
\* quoted
C10_Witness ==
  /\ scan.last.out = Failed
  /\ scan.last.hop = 2
  /\ scan.pc = "quote"
  /\ scan.pos > scan.last.pos
  /\ progress.quotesErr = 1

\* the quote awaited in this state is answered in this step with some output
AnsweredOk ==
  /\ scan.pc = "quote"
  /\ scan'.last.pos = scan.pos
  /\ scan'.last.hop = scan.hop
  /\ scan'.last.out # Failed

\* a quote call is made in this step
Issued ==
  /\ scan'.pc = "quote"
  /\ scan.pc = "quote" => <<scan'.pos, scan'.hop>> # <<scan.pos, scan.hop>>

\* a candidate is attempted in this step
Attempted == Issued /\ scan'.hop = 1

\* scanOnce is entered in this step
Entered == scans' # scans

\* the counters of p are consistent with inflight quote calls awaited
CountersAgree(p, inflight) ==
  p.quotesRequested = p.quotesOk + p.quotesErr + inflight

\* C11: every attempted candidate adds one to pairsTried and nothing else
\* does; every quote call adds one to quotesRequested and nothing else does;
\* an answered quote adds one to quotesOk and nothing to quotesErr, a rejected
\* quote adds one to quotesErr and nothing to quotesOk, and no other step
\* changes them (scanOnce starts all of them from zero); quotesRequested is
\* quotesOk + quotesErr plus one exactly while a quote is awaited, so it
\* equals quotesOk + quotesErr when scanOnce returns.
C11_Counters ==
  [][LET from(f) == IF Entered THEN 0 ELSE progress[f]
         one(b)  == IF b THEN 1 ELSE 0
     IN  /\ progress'.pairsTried = from("pairsTried") + one(Attempted)
         /\ progress'.quotesRequested = from("quotesRequested") + one(Issued)
         /\ progress'.quotesOk
              = from("quotesOk") + one(AnsweredOk)
         /\ progress'.quotesErr = from("quotesErr") + one(Answered(Failed))
         /\ CountersAgree(progress, one(scan.pc = "quote"))
         /\ CountersAgree(progress', one(scan'.pc = "quote"))
         /\ scan'.pc = "done" => CountersAgree(progress', 0)
  ]_vars

\* scanOnce has returned after answered and rejected quotes
C11_Witness ==
  /\ scan.pc = "done"
  /\ scan.ret = "opps"
  /\ progress.quotesOk >= 2
  /\ progress.quotesErr >= 1
  /\ progress.pairsTried >= 2
  /\ progress.quotesRequested = progress.quotesOk + progress.quotesErr

\* the last hop of the awaited candidate is answered in this step
Completed == AnsweredOk /\ scan.hop = ThePlan[scan.pos].hops

\* C12: the step in which the last hop of a candidate is answered with output
\* v appends exactly one Opportunity to the list, with the hops, tokens and
\* fees of the candidate and profitBps = (v - probeAmount) / probeAmount *
\* 10000 (so 100 for probe 100 and output 101); no other step of a scan adds
\* or removes an Opportunity; the scan of universe [GUSDC, GALA] from base
\* GUSDC with fee 500 and probe 100, answered 1000 and then 102, returns one
\* Opportunity with hops 2, profitBps 200 and tokens [GUSDC, GALA, GUSDC].
C12_OneOpportunityPerCycle ==
  [][/\ Completed =>
          LET item == ThePlan[scan.pos]
              v    == scan'.last.out
              o    == scan'.opps[Len(scan'.opps)]
          IN  /\ Len(scan'.opps) = Len(scan.opps) + 1
              /\ SubSeq(scan'.opps, 1, Len(scan.opps)) = scan.opps
              /\ o.hops = item.hops
              /\ o.tokens = item.tokens
              /\ o.fees = item.fees
              /\ scanCfg.probeAmount > 0
              /\ o.profitBps * scanCfg.probeAmount
                   = (v - scanCfg.probeAmount) * 10000
              /\ (scanCfg.probeAmount = 100 /\ v = 101) => o.profitBps = 100
              /\ ( /\ scanCfg.baseSymbols = <<GUSDC>>
                   /\ scan.outs = <<1000>>
                   /\ v = 102 )
                 => /\ scan'.pc = "done"
                    /\ scan'.opps =
                         <<[hops |-> 2, profitBps |-> 200,
                            tokens |-> <<toPipeId(GUSDC), toPipeId(GALA),
                                         toPipeId(GUSDC)>>,
                            fees |-> <<500, 500>>, path |-> o.path]>>
     /\ (scan.pc = "quote" /\ ~Completed) => scan'.opps = scan.opps
  ]_vars

\* the scan of the scenario has returned its one Opportunity
C12_Witness ==
  /\ scan.pc = "done"
  /\ scanCfg.baseSymbols = <<GUSDC>>
  /\ Len(scan.opps) = 1
  /\ scan.opps[1].profitBps = 200
  /\ scan.opps[1].hops = 2
  /\ scan.opps[1].tokens[2] = toPipeId(GALA)
  /\ scan.last.out = 102

\* the shape of a cycle of h hops over tokens t and fees f: closed on its
\* base, intermediate tokens pairwise distinct and different from the base
CycleShape(h, t, f) ==
  /\ h \in {2, 3}
  /\ Len(t) = h + 1
  /\ Len(f) = h
  /\ t[1] = t[h + 1]
  /\ \A i \in 2..h : t[i] # t[1]
  /\ \A i, j \in 2..h : i # j => t[i] # t[j]

\* C13: every Opportunity collected by a scan, and every candidate that is
\* being quoted, has hops + 1 tokens, hops fees, its first token as its last,
\* and intermediate tokens that differ from each other and from the base; no
\* quote is asked from a token to itself.
C13_CycleShape ==
  /\ \A k \in 1..Len(scan.opps) :
       CycleShape(scan.opps[k].hops, scan.opps[k].tokens, scan.opps[k].fees)
  /\ scan.pc = "quote" =>
       /\ CycleShape(ThePlan[scan.pos].hops, ThePlan[scan.pos].tokens,
                     ThePlan[scan.pos].fees)
       /\ \A k \in 1..Len(scan.quotes) :
            scan.quotes[k].tokenIn # scan.quotes[k].tokenOut

\* a scan has returned opportunities of two and of three hops from a universe
\* that holds the base
C13_Witness ==
  /\ scan.pc = "done"
  /\ \E k \in 1..Len(scan.opps) : scan.opps[k].hops = 2
  /\ \E k \in 1..Len(scan.opps) : scan.opps[k].hops = 3
  /\ \E k \in 1..Len(scanCfg.tokens) :
       toPipeId(scanCfg.tokens[k]) = toPipeId(scanCfg.baseSymbols[1])

\* the elements of a sequence
Range(xs) == {xs[k] : k \in 1..Len(xs)}

\* the route of a candidate of the plan
RouteOf(item) == [hops |-> item.hops, tokens |-> item.tokens, fees |-> item.fees]

\* the routes that configuration c calls for: from every base, through every
\* other token of the universe, back to the base with every pair of fee
\* tiers; and, unless maxHops < 3, through every two distinct other tokens
\* with every triple of fee tiers
ExpectedRoutes(c) ==
  LET bases    == {toPipeId(t) : t \in Range(c.baseSymbols)}
      universe == {toPipeId(t) : t \in Range(c.tokens)}
      F        == Range(c.feeTiers)
      two   == UNION {{[hops |-> 2, tokens |-> <<a, b, a>>, fees |-> <<x, y>>] :
                         b \in universe \ {a}, x \in F, y \in F} : a \in bases}
      three == UNION {UNION {{[hops |-> 3, tokens |-> <<a, b, d, a>>,
                               fees |-> <<x, y, z>>] :
                                d \in universe \ {a, b}, x \in F, y \in F,
                                z \in F} :
                             b \in universe \ {a}} : a \in bases}
  IN  IF c.maxHops >= 3 THEN two \cup three ELSE two

\* the routes called for, for every explored configuration with valid texts
ExpectedTable ==
  [c \in ScanConfigs |->
     IF ThrowsTable[c] THEN {} ELSE ExpectedRoutes(c)]

\* TRUE for the configurations whose plan holds no route twice and holds
\* exactly the routes called for
PlanIsExact ==
  [c \in ScanConfigs |->
     LET routes == {k \in 1..Len(PlanTable[c]) : PlanTable[c][k].kind = "route"}
     IN  /\ \A j, k \in routes :
              j # k => RouteOf(PlanTable[c][j]) # RouteOf(PlanTable[c][k])
         /\ {RouteOf(PlanTable[c][k]) : k \in routes} = ExpectedTable[c]]

DeepRoutes(c, h) ==
  LET bases    == {toPipeId(t) : t \in Range(c.baseSymbols)}
      universe == {toPipeId(t) : t \in Range(c.tokens)}
      F        == Range(c.feeTiers)
      mids(a)  == {m \in [1..(h - 1) -> universe \ {a}] :
                     \A i, j \in 1..(h - 1) : i # j => m[i] # m[j]}
  IN  UNION {{[hops |-> h, tokens |-> <<a>> \o m \o <<a>>, fees |-> f] :
                m \in mids(a), f \in [1..h -> F]} : a \in bases}

\* C15 as stated: a scan with maxHops = 4 or 5 that has returned has attempted
\* the cycles of every depth from 2 to maxHops.
C15_DeeperCycles ==
  (scan.pc = "done" /\ scan.ret = "opps" /\ scanCfg.maxHops >= 4) =>
    progress.pairsTried =
      Cardinality(UNION {DeepRoutes(scanCfg, h) : h \in 2..scanCfg.maxHops})

\* C16: when the token list or the fee-tier list of the configuration is
\* empty (and the base symbols are valid texts), the step that enters
\* scanOnce also returns from it, with an empty list of opportunities, no
\* quote call, no error, and every counter of the progress at zero.
C16_EmptyInputs ==
  [][( /\ Entered
       /\ ~Throws
       /\ (scanCfg.tokens = <<>> \/ scanCfg.feeTiers = <<>>) )
     => /\ scan'.pc = "done"
        /\ scan'.ret = "opps"
        /\ scan'.opps = <<>>
        /\ scan'.quotes = <<>>
        /\ progress'.pairsTried = 0
        /\ progress'.quotesRequested = 0
        /\ progress'.quotesOk = 0
        /\ progress'.quotesErr = 0
        /\ progress'.totalQuotesPlanned = 0
        /\ \A b \in DOMAIN progress'.perBaseCounts :
             progress'.perBaseCounts[b] = 0
        /\ lastReport'.pairsTried = 0
        /\ lastReport'.quotesRequested = 0
  ]_vars

\* a scan over three tokens and no fee tier has returned
C16_Witness ==
  /\ scan.pc = "done"
  /\ scan.ret = "opps"
  /\ scan.opps = <<>>
  /\ scanCfg.feeTiers = <<>>
  /\ Len(scanCfg.tokens) = 3
  /\ progress.startedAt = lastReport.startedAt
  /\ progress.quotesRequested = 0

\* a scan over no token has returned
C16_WitnessNoToken ==
  /\ scan.pc = "done"
  /\ scan.ret = "opps"
  /\ scan.opps = <<>>
  /\ scanCfg.tokens = <<>>
  /\ progress.perBaseCounts = [k \in {Sym("G")} |-> 0]

\* the workload that configuration c announces: two quotes for every base,
\* every other token of the deduplicated universe and every pair of fee
\* tiers, and, when maxHops >= 3, three quotes for every base, every two other
\* tokens and every triple of fee tiers, the factors clamped at zero
PlannedQuotes(c) ==
  LET B     == Len(c.baseSymbols)
      U     == Cardinality({toPipeId(t) : t \in Range(c.tokens)})
      F     == Len(c.feeTiers)
      U1    == IF U - 1 > 0 THEN U - 1 ELSE 0
      U2    == IF U - 2 > 0 THEN U - 2 ELSE 0
      two   == B * U1 * F * F * 2
      three == IF c.maxHops >= 3 THEN B * U1 * U2 * F * F * F * 3 ELSE 0
  IN  two + three

\* C17: the step that enters scanOnce sets totalQuotesPlanned to the
\* announced workload and no later step of the scan changes it; the scan
\* never consults it: whatever its value, an answered or rejected quote is
\* followed by the next candidate of the plan, and the scan returns only when
\* no candidate is left.
C17_PlannedQuotes ==
  [][~Throws =>
       /\ Entered => progress'.totalQuotesPlanned = PlannedQuotes(scanCfg)
       /\ ~Entered => progress'.totalQuotesPlanned = progress.totalQuotesPlanned
       /\ ( /\ scan.pc = "quote"
            /\ scan'.pc = "done"
            /\ progress.quotesRequested >= progress.totalQuotesPlanned )
          => RoutesAfter(scan.pos) = {}
       /\ ( /\ scan.pc = "quote"
            /\ scan'.pos # scan.pos
            /\ RoutesAfter(scan.pos) # {} )
          => scan'.pc = "quote"
  ]_vars

\* a scan whose base is not in the universe is quoting beyond its announced
\* workload
C17_Witness ==
  /\ scan.pc = "quote"
  /\ progress.totalQuotesPlanned = 2
  /\ progress.totalQuotesPlanned = PlannedQuotes(scanCfg)
  /\ progress.quotesRequested > progress.totalQuotesPlanned

RECURSIVE Total(_)
\* the sum of the values of the object counts
Total(counts) ==
  IF DOMAIN counts = {} THEN 0
  ELSE LET k == CHOOSE x \in DOMAIN counts : TRUE
       IN  counts[k] + Total([x \in DOMAIN counts \ {k} |-> counts[x]])

\* C35: between any two steps of the scanner the values of perBaseCounts sum
\* to pairsTried, and pairsTried <= quotesRequested + 1 <= 3 * pairsTried + 1:
\* every attempted route has made at least one and at most three quote calls.
C35_CountsAgree ==
  /\ Total(progress.perBaseCounts) = progress.pairsTried
  /\ progress.pairsTried <= progress.quotesRequested + 1
  /\ progress.quotesRequested + 1 <= 3 * progress.pairsTried + 1

\* C35 witness: a scan from two bases has tried a route from each, with two
\* quote calls per route
C35_Witness ==
  /\ DOMAIN progress.perBaseCounts = {Sym("D"), Sym("A")}
  /\ progress.perBaseCounts[Sym("D")] = 1
  /\ progress.perBaseCounts[Sym("A")] = 1
  /\ progress.pairsTried = 2
  /\ progress.quotesRequested = 4

\* every base of configuration c is a token of its universe
BasesInUniverse(c) ==
  \A b \in Range(c.baseSymbols) :
    toPipeId(b) \in {toPipeId(t) : t \in Range(c.tokens)}

\* C34 as stated: with maxHops 2 or 3, whether or not the bases are tokens of
\* the universe, quotesRequested never exceeds totalQuotesPlanned, and a scan
\* whose bases are in the universe and whose every route ended in an
\* Opportunity returns with the two equal.
C34_WithinPlan ==
  (scanCfg.maxHops \in {2, 3} /\ ~Throws) =>
    /\ progress.quotesRequested <= progress.totalQuotesPlanned
    /\ ( /\ scan.pc = "done"
         /\ BasesInUniverse(scanCfg)
         /\ Len(scan.opps) = progress.pairsTried )
       => progress.quotesRequested = progress.totalQuotesPlanned

\* the part of C34 for bases that are tokens of the universe
C34_WithinPlanBasesInUniverse ==
  (scanCfg.maxHops \in {2, 3} /\ ~Throws /\ BasesInUniverse(scanCfg)) =>
    C34_WithinPlan

(***************************************************************************)
(* Properties of getProgress                                               *)
(***************************************************************************)
\* what a reader sees through the object t: its fields, with the entries of
\* its counts object
viewIn(pr, lv, tp, mp, t) ==
  [topIn(pr, lv, tp, t) EXCEPT !.perBaseCounts = mapIn(pr, lv, mp, @)]

\* what the caller sees in the k-th object it holds, now and after the step
Seen(k) == viewIn(progress, live, tops, maps, snaps[k])
SeenNext(k) == viewIn(progress', live', tops', maps', snaps'[k])

\* getProgress returns in this step
Returned == Len(snaps') = Len(snaps) + 1

\* the caller writes into the k-th object it holds in this step
Wrote(k) == CallerWrite(k, Sym("D"), Scribble)

\* C18: the object that getProgress returns is a new object with a new
\* perBaseCounts object, and shows the values of the progress at that moment;
\* a write of the caller into the fields or the perBaseCounts entries of an
\* object it holds changes neither the progress of the scanner nor what any
\* other held object shows; no step of a scan and no later getProgress
\* changes what an object already returned shows.
C18_DeepCopy ==
  [][/\ \A k \in 1..Len(snaps) :
          /\ Wrote(k) =>
               /\ progress' = progress
               /\ \A j \in 1..Len(snaps) : j # k => SeenNext(j) = Seen(j)
          /\ (\A j \in 1..Len(snaps) : ~Wrote(j)) => SeenNext(k) = Seen(k)
     /\ Returned =>
          /\ SeenNext(Len(snaps')) = progress'
          /\ snaps'[Len(snaps')] # live'.top
          /\ tops'[snaps'[Len(snaps')]].perBaseCounts # live'.counts
          /\ \A k \in 1..Len(snaps) :
               /\ snaps'[Len(snaps')] # snaps[k]
               /\ tops'[snaps'[Len(snaps')]].perBaseCounts
                    # tops'[snaps[k]].perBaseCounts
  ]_vars

\* the caller holds two snapshots of the first scan, has overwritten the
\* first, and the second scan has finished with the progress intact
C18_Witness ==
  /\ Len(snaps) = 2
  /\ Seen(1).pairsTried = Scribble
  /\ Seen(1).perBaseCounts[Sym("D")] = Scribble
  /\ Seen(2).pairsTried = 1
  /\ Seen(2).perBaseCounts[Sym("D")] = 1
  /\ Seen(2).quotesOk = 0
  /\ scans = 2
  /\ progress.pairsTried = 1
  /\ progress.perBaseCounts[Sym("D")] = 1
  /\ progress.quotesOk = 2

\* C19 as stated: a call of getProgress, at any point, leaves every field of
\* the state of the scanner as it was.
C19_ReadOnly ==
  [][Returned =>
       /\ progress' = progress
       /\ lastReport' = lastReport
       /\ scanCfg' = scanCfg
       /\ scan' = scan
       /\ live' = live
  ]_vars

\* the counters of a progress-shaped value
Counters(p) ==
  <<p.pairsTried, p.quotesRequested, p.quotesOk, p.quotesErr>>

\* C20: getProgress returns at any point of the life of the scanner; before
\* the first scanOnce the object it returns has startedAt and lastUpdateAt
\* null, every counter zero and no perBaseCounts entry; during a scan it shows
\* the counters of that moment; after scanOnce has returned it shows the final
\* counters of that scan (those of lastReport), which no step changes until
\* the next scanOnce starts them again from zero with startedAt at the time
\* of that call.
C20_SnapshotAnyTime ==
  [][/\ Returned =>
          LET v == SeenNext(Len(snaps'))
          IN  /\ scans = 0 =>
                   /\ v.startedAt = Null
                   /\ v.lastUpdateAt = Null
                   /\ v.elapsedMs = 0
                   /\ v.totalQuotesPlanned = 0
                   /\ Counters(v) = <<0, 0, 0, 0>>
                   /\ DOMAIN v.perBaseCounts = {}
              /\ Counters(v) = Counters(progress)
              /\ v.perBaseCounts = progress.perBaseCounts
              /\ v.startedAt = progress.startedAt
              /\ (scans > 0 /\ scan.pc # "quote") =>
                   /\ Counters(v) = <<lastReport.pairsTried,
                                      lastReport.quotesRequested,
                                      lastReport.quotesOk, lastReport.quotesErr>>
                   /\ v.startedAt = lastReport.startedAt
     /\ (scan.pc # "quote" /\ ~Entered) =>
          /\ Counters(progress') = Counters(progress)
          /\ progress'.perBaseCounts = progress.perBaseCounts
          /\ progress'.startedAt = progress.startedAt
     /\ Entered =>
          /\ progress'.startedAt = clock
          /\ progress'.quotesOk = 0
          /\ progress'.quotesErr = 0
          /\ progress'.pairsTried = IF Attempted THEN 1 ELSE 0
          /\ progress'.quotesRequested = IF Issued THEN 1 ELSE 0
  ]_vars

\* the caller holds a snapshot taken after the first scan had returned, with
\* its final counters, and the second scan has started again from zero at a
\* later time
C20_Witness ==
  /\ Len(snaps) >= 1
  /\ scans = 2
  /\ scan.pc = "quote"
  /\ Counters(Seen(1)) = <<1, 2, 2, 0>>
  /\ Counters(progress) = <<1, 1, 0, 0>>
  /\ Seen(1).startedAt < progress.startedAt

\* C32: when a scan has started (startedAt is not null), the elapsedMs of
\* the object that getProgress returns is the time of the call minus
\* startedAt, whatever elapsedMs the progress held before the call.
C32_ElapsedIsCurrent ==
  [][(Returned /\ progress.startedAt # Null) =>
       SeenNext(Len(snaps')).elapsedMs = clock - progress.startedAt
  ]_vars

\* C32 witness: the scan has returned with a duration of zero, and a
\* snapshot taken later shows the time elapsed until the call
C32_Witness ==
  /\ scan.pc = "done"
  /\ lastReport.durationMs = 0
  /\ Len(snaps) >= 1
  /\ Seen(Len(snaps)).startedAt = lastReport.startedAt
  /\ Seen(Len(snaps)).elapsedMs = 1

(***************************************************************************)
(* Properties of two scanners that differ in their diagnostic settings     *)
(***************************************************************************)
\* the invocation s of scanOnce without the labels it retained and printed
Unlabelled(s) == [s EXCEPT !.searched = <<>>, !.printed = <<>>]

\* C21: two scanners with the same tokens, fee tiers, probe amount and
\* maxHops whose quotes receive the same answers are, whatever logPairs and
\* logPairsMax each has, at the same position with the same quote calls
\* issued, the same Opportunity list, the same counters and the same report
C21_LabelCapNoEffect ==
  /\ Unlabelled(twin.scan) = Unlabelled(scan)
  /\ twin.progress = progress
  /\ twin.report = lastReport

\* C21 witness: both scans have returned an Opportunity after the same
\* quotes, and printed different label lists
C21_Witness ==
  /\ scan.pc = "done"
  /\ twin.scan.pc = "done"
  /\ scan.opps # <<>>
  /\ scan.printed # twin.scan.printed
  /\ progress.quotesErr > 0

\* the labels that the invocation s of scanOnce holds are within the cap of
\* the configuration c, and there is none without logPairs
WithinCap(s, c) ==
  /\ Len(s.searched) <= c.logPairsMax
  /\ Len(s.printed) <= c.logPairsMax
  /\ ~c.logPairs => s.searched = <<>> /\ s.printed = <<>>

Ranked == main.pc = "sleeping" /\ main.enabled /\ main.line.kind # "loop error"

\* the Opportunity o as scanOnce returned it
Bare(o) == [path |-> o.path, hops |-> o.hops, profitBps |-> o.profitBps]

\* the elements of the list seq with profit b, in the order of seq
WithProfit(seq, b) ==
  LET has(o) == o.profitBps = b
  IN  SelectSeq([i \in 1..Len(seq) |-> Bare(seq[i])], has)

\* the number of positions of the list seq that hold o
Count(seq, o) == Cardinality({i \in 1..Len(seq) : Bare(seq[i]) = o})

\* C22: the ranked list holds no Opportunity below ARB_MIN_PROFIT_BPS (in
\* particular none with profitBps -200 when the threshold is 0) and is in
\* non-increasing order of profitBps; an empty ranked list is logged as an
\* iteration without candidate, not as an error, and the loop sleeps
C22_RankFilterSort ==
  Ranked =>
    /\ \A i \in 1..Len(main.eligible) :
         main.eligible[i].profitBps >= main.minProfitBps
    /\ main.minProfitBps = 0 =>
         \A i \in 1..Len(main.eligible) : main.eligible[i].profitBps # -200
    /\ \A i, j \in 1..Len(main.eligible) :
         i < j => main.eligible[i].profitBps >= main.eligible[j].profitBps
    /\ main.eligible = <<>> => main.line.kind = "no candidate"

\* C22 witness: with threshold 0, a list whose first Opportunity has
\* profitBps -200 and whose next two are in increasing order of profit was
\* ranked
C22_Witness ==
  /\ Ranked
  /\ main.minProfitBps = 0
  /\ Len(main.opps) = 3
  /\ main.opps[1].profitBps = -200
  /\ main.opps[2].profitBps < main.opps[3].profitBps
  /\ Len(main.eligible) = 2

\* C23: every Opportunity of the received list that reaches the threshold is
\* in the ranked list as many times as in the received list, nothing else
\* is, and the Opportunities of one profit are in the order in which they
\* were received
C23_RankKeepsAllStable ==
  Ranked =>
    /\ \A o \in MainOpps :
         Count(main.eligible, o) =
           IF o.profitBps >= main.minProfitBps THEN Count(main.opps, o) ELSE 0
    /\ \A i \in 1..Len(main.eligible) : Bare(main.eligible[i]) \in MainOpps
    /\ \A o \in MainOpps :
         o.profitBps >= main.minProfitBps =>
           WithProfit(main.eligible, o.profitBps)
             = WithProfit(main.opps, o.profitBps)

\* C23 witness: a list with two different Opportunities of one profit after
\* one of lower profit, all above the threshold, was ranked
C23_Witness ==
  /\ Ranked
  /\ Len(main.opps) = 3
  /\ Len(main.eligible) = 3
  /\ main.opps[1].profitBps < main.opps[2].profitBps
  /\ main.opps[2].profitBps = main.opps[3].profitBps
  /\ main.opps[2].path # main.opps[3].path

\* the catch block of the loop has logged an error and sleeps
Caught == main.pc = "sleeping" /\ main.line.kind = "loop error"

\* C24: main never leaves its loop, and whenever an iteration has failed
\* (error caught and logged, heartbeat stopped, sleep started) a next
\* iteration starts, with a new call of scanOnce
C24_LoopSurvivesErrors ==
  /\ [](main.pc \in {"start", "scanning", "sleeping"})
  /\ [](Caught => ~main.hbTimer)
  /\ (Caught ~> main.pc = "scanning")

\* C24 witness: an iteration has failed after an earlier one logged a
\* candidate or none
C24_Witness == Caught /\ main.enabled /\ ~main.hbTimer

\* C36: at most one heartbeat timer is set at any time, and it is the one
\* that hbTimer holds; a timer is set only while a call of scanOnce is
\* awaited; when the loop sleeps, after scanOnce returned as well as after
\* it threw, no timer is set
C36_HeartbeatLifecycle ==
  /\ main.timers <= 1
  /\ main.hbTimer <=> main.timers = 1
  /\ main.timers > 0 => main.pc = "scanning"
  /\ main.pc = "sleeping" => main.timers = 0

\* C36 witness: after an iteration that failed, the next one awaits scanOnce
\* with one timer set
C36_Witness ==
  /\ main.pc = "scanning"
  /\ main.line.kind = "loop error"
  /\ main.timers = 1

\* C39: a call of scanOnce on a scanner with a base or token text that
\* toPipeId rejects fails at once, with no quote call and with the progress
\* and lastReport as they were (so they stay as the scanner was constructed);
\* the main loop, which awaits the call with the heartbeat running, receives
\* the failure in its catch block, stops the heartbeat, logs the error and
\* sleeps; the loop is then ready for its next iteration, which is the only
\* thing it does next and which calls scanOnce again
C39_InvalidTextFailsEarly ==
  /\ [][(Throws /\ Entered) =>
          /\ scan'.pc = "failed"
          /\ scan'.quotes = <<>>
          /\ progress' = progress
          /\ lastReport' = lastReport
          /\ main'.pc = "scanning"
          /\ main'.timers = 1
     ]_vars
  /\ [](Throws => /\ progress = FreshProgress
                  /\ lastReport = NoReport
                  /\ scan.pc \in {"idle", "failed"})
  /\ [][(scan.pc = "failed" /\ scan'.pc # "failed") =>
          /\ main'.pc = "sleeping"
          /\ main'.line.kind = "loop error"
          /\ main'.timers = 0
          /\ ~main'.hbTimer
          /\ progress' = progress
          /\ lastReport' = lastReport
     ]_vars
  /\ [](scan.pc = "failed" => ENABLED LoopScanThrow)
  /\ []((Throws /\ Caught /\ scans < MaxRounds) => ENABLED LoopWake)
  /\ [][(Throws /\ Caught /\ main' # main) =>
          /\ main'.pc = "scanning"
          /\ main'.timers = 1
          /\ scans' = scans + 1
     ]_vars

\* C39 witness: the second call of scanOnce on a scanner with an invalid
\* base text has failed, after the loop caught the failure of the first, and
\* the progress is as it was at construction
C39_Witness ==
  /\ Throws
  /\ toPipeIdThrows(scanCfg.baseSymbols[1])
  /\ scans = 2
  /\ scan.pc = "failed"
  /\ main.pc = "scanning"
  /\ main.line.kind = "loop error"
  /\ progress = FreshProgress

(***************************************************************************)
(* Properties of the token identifier normalizer                           *)
(***************************************************************************)
\* the pipe identifier symbol|Unit|subclass|network
Canonical(sym, sub, net) == fourPart(sym, UnitText, sub, net, "|")

\* the spellings of the token (sym, sub, net): the four-part dollar text
\* with and without the leading marker, the four-part pipe text and, for a
\* token of subclass and network none, the bare symbol
Spellings(sym, sub, net) ==
  {fourPart(sym, UnitText, sub, net, "$"),
   <<"$">> \o fourPart(sym, UnitText, sub, net, "$"),
   fourPart(sym, UnitText, sub, net, "|")}
    \cup (IF sub = NoneText /\ net = NoneText THEN {sym} ELSE {})

FourFields(t, sep) ==
  Len(split(t, sep)) = 4 /\ \A k \in 1..4 : IsWordText(split(t, sep)[k])

\* the text t has one of the accepted shapes: a four-part pipe text, a
\* four-part dollar text of class Unit with or without the leading marker,
\* or a bare symbol
Accepted(t) ==
  \/ FourFields(t, "|")
  \/ FourFields(t, "$") /\ split(t, "$")[2] = UnitText
  \/ /\ t # <<>> /\ Head(t) = "$"
     /\ FourFields(Tail(t), "$") /\ split(Tail(t), "$")[2] = UnitText
  \/ IsWordText(t)

\* C26 (as claimed): toPipeId throws for every text that has none of the
\* accepted shapes, and whatever it returns is a four-part pipe identifier
C26_RejectsOtherShapes ==
  norm.pc \in {"once", "twice"} =>
    /\ ~Accepted(trim(norm.input)) => norm.first.throws
    /\ ~norm.first.throws => FourFields(norm.first.value, "|")

(***************************************************************************)
(* Properties of the greedy scanner                                        *)
(***************************************************************************)
\* the tier positions of a call of bestFeeOut whose quotes were answered
Succeeded(got) == {n \in 1..Len(got) : got[n] # Failed}

\* the result that the claim calls for, given the fee tiers and the answers
\* got: nothing when no quote was answered, otherwise the earliest tier
\* among those with the greatest output
Greatest(tiers, got) ==
  IF Succeeded(got) = {} THEN NoBest
  ELSE LET n == CHOOSE n \in Succeeded(got) :
                  /\ \A m \in Succeeded(got) : got[m] <= got[n]
                  /\ \A m \in Succeeded(got) : m < n => got[m] < got[n]
       IN  [fee |-> tiers[n], out |-> got[n]]

\* C30: a call of bestFeeOut in hand has asked the first k fee tiers, in
\* the order of the configuration, each once, between the same tokens and
\* with the same input amount; a call that has returned asked every tier so
\* and returned the tier with the greatest output among the answered quotes
\* (the earliest of them on a tie), and null exactly when no quote was
\* answered; after null the triangle is discarded: no further hop of it is
\* quoted and no Opportunity is recorded for it
C30_BestFeePerHop ==
  LET g == greedy.run
      t == greedy.cfg.feeTiers
      l == g.lastCall
  IN  /\ (g.pc = "quote" /\ g.sec = 3) =>
           /\ Len(g.asked) = g.k
           /\ Len(g.got) = g.k - 1
           /\ \A n \in 1..Len(g.asked) :
                /\ g.asked[n].fee = t[n]
                /\ g.asked[n].amountIn = g.amountIn
                /\ g.asked[n].tokenIn = g.asked[1].tokenIn
                /\ g.asked[n].tokenOut = g.asked[1].tokenOut
           /\ g.amountIn = IF g.hop = 1 THEN greedy.cfg.probeUsd
                           ELSE g.bests[g.hop - 1].out
      /\ l # NoCall =>
           /\ Len(l.asked) = Len(t)
           /\ Len(l.got) = Len(t)
           /\ \A n \in 1..Len(t) :
                /\ l.asked[n].fee = t[n]
                /\ l.asked[n].amountIn = l.amountIn
                /\ l.asked[n].tokenIn = l.asked[1].tokenIn
                /\ l.asked[n].tokenOut = l.asked[1].tokenOut
           /\ l.best = Greatest(t, l.got)
           /\ l.best = NoBest <=> \A n \in 1..Len(t) : l.got[n] = Failed
           /\ l.best = NoBest =>
                /\ Len(g.fates) >= l.cand
                /\ g.fates[l.cand] = "discarded"
                /\ g.pc = "quote" => g.cand > l.cand
      /\ \A n \in 1..Len(g.fates) :
           g.fates[n] = "discarded" =>
             \A o \in 1..Len(g.opps) :
               g.opps[o].tokens # TriangleTable[greedy.cfg][n]

\* C30 witness: the scan is over; the first triangle was recorded with the
\* second tier of the configuration on a hop, its call of bestFeeOut for the
\* third hop had two answers, and the second triangle was discarded after a
\* call in which every quote failed
C30_Witness ==
  LET g == greedy.run
  IN  /\ g.pc = "done"
      /\ greedy.cfg.feeTiers = <<3000, 500>>
      /\ g.fates = <<"evaluated", "discarded">>
      /\ g.lastCall.best = NoBest
      /\ g.lastCall.got = <<Failed, Failed>>
      /\ Len(g.opps) = 1
      /\ g.opps[1].fees[2] = 500


\* C38 as stated: on an enabled executor that has completed no execution
\* (lastExecAt = 0, recentPaths empty) a call of tryExecute with an
\* opportunity within the hop limit is rejected neither by the cooldown check
\* nor by the dedupe check, whatever cooldownMs, dedupeWindowMs and the time
\* of the call are.
C38_FreshExecutorPasses ==
  [][\A c \in Calls :
       ( /\ cfg.enabled
         /\ lastExecAt = 0
         /\ recentPaths = <<>>
         /\ call[c].pc = "idle"
         /\ call'[c].pc # "idle"
         /\ call'[c].opp.hops <= cfg.maxHopsExec )
       => call'[c].exit \notin {"cooldown", "dedupe"}
  ]_vars

\* the part of C38 for calls made at least cooldownMs after the epoch
C38_FreshExecutorPassesLate ==
  [][clock >= cfg.cooldownMs =>
       \A c \in Calls :
         ( /\ cfg.enabled
           /\ lastExecAt = 0
           /\ recentPaths = <<>>
           /\ call[c].pc = "idle"
           /\ call'[c].pc # "idle"
           /\ call'[c].opp.hops <= cfg.maxHopsExec )
         => call'[c].exit \notin {"cooldown", "dedupe"}
  ]_vars

(***************************************************************************)
(* Properties of overlapping calls of tryExecute                           *)
(***************************************************************************)
\* call c returns true in this step
ReturnsTrue(c) ==
  call[c].pc # "done" /\ call'[c].pc = "done" /\ call'[c].ret = "true"

\* C37 as stated: however calls of tryExecute on one executor interleave, a
\* call that returns true does so at least cooldownMs after the call that
\* returned true before it, and at least dedupeWindowMs after the last call
\* that returned true for the same path signature.
C37_GuardsUnderOverlap ==
  [][\A c \in Calls :
       ReturnsTrue(c) =>
         /\ lastExecAt # 0 => clock - lastExecAt >= cfg.cooldownMs
         /\ call'[c].ph \in DOMAIN recentPaths =>
              clock - recentPaths[call'[c].ph] >= cfg.dedupeWindowMs
  ]_vars

(***************************************************************************)
(* Greedy scanner: the statistics of the searched pairs                    *)
(***************************************************************************)
\* the calls of quoteExactIn for the pair pkey that have returned
CallsOf(pkey) ==
  {n \in 1..Len(greedy.run.calls) : greedy.run.calls[n].pair = pkey}

\* C31: for every directed pair of the map of pair statistics, okFees is a
\* subset of attempted, errors is the number of failed quote calls for the
\* pair, and a fee tier is in okFees exactly when a quote at that tier for
\* the pair succeeded; a pair without an entry has had no quote call
C31_PairStats ==
  LET stats == greedy.run.stats
      calls == greedy.run.calls
  IN  /\ \A n \in 1..Len(calls) : calls[n].pair \in DOMAIN stats
      /\ \A pkey \in DOMAIN stats :
            /\ stats[pkey].okFees \subseteq stats[pkey].attempted
            /\ stats[pkey].errors =
                 Cardinality({n \in CallsOf(pkey) : ~calls[n].ok})
            /\ stats[pkey].okFees =
                 {calls[n].fee : n \in {m \in CallsOf(pkey) : calls[m].ok}}

\* C31 witness: a pair has a failed call, a tier that answered and an
\* attempted tier that never answered
C31_Witness ==
  \E pkey \in DOMAIN greedy.run.stats :
    /\ greedy.run.stats[pkey].errors >= 1
    /\ greedy.run.stats[pkey].okFees # {}
    /\ greedy.run.stats[pkey].attempted # greedy.run.stats[pkey].okFees
    /\ greedy.run.req = NoRequest

====
